---- MODULE Spec2Model ----
(***************************************************************************)
(* State-machine model of the edge worker of NewsXHunter: the daily quota  *)
(* ledger, the content-addressed raw-item ingestion pipeline, the LINE     *)
(* webhook dispatcher and the Bard push agent.                             *)
(*                                                                         *)
(* Python values are modelled as sequences of one-character strings (a     *)
(* str), the one-element sequence <<"None">> (None) or a sequence whose    *)
(* head is "dict" (a JSON object), so that all of them are comparable.     *)
(***************************************************************************)
EXTENDS Integers, Sequences, FiniteSets, TLC

\* ------------------------------------------------------------------ bounds
MaxUser == 2        \* users 1..MaxUser of the quota ledger
MaxDay == 1         \* usage dates 1..MaxDay
MaxLimit == 2       \* limits 0..MaxLimit passed to consume_daily_quota
MaxQProc == 2       \* concurrent callers of consume_daily_quota
MaxQCalls == 2      \* calls each caller makes
MaxIngest == 3      \* ingest requests handled in one run
MaxBatch == 2       \* events in a webhook batch
MaxDeliveries == 2  \* deliveries of the batch handled in one run
MaxStored == 2      \* ingest requests that filled the store before a push
MaxPush == 2        \* create_push_and_deliver calls in one run
MaxAsk == 3         \* ask calls in one run
MaxFaulted == 1     \* ask calls of one run in which a store write raises
MaxAttempts == 3    \* translation attempts in the store of a dispatch
MaxUpserts == 2     \* user upserts in one run
MaxCanon == 2       \* ingests of one request through the three paths
MaxInvoke == 2      \* gateway calls in one run
MaxRegister == 2    \* register_tenant calls in one run

\* ------------------------------------------------------------ python values
None == <<"None">>

EmptyDict == <<"dict">>

\* Python truthiness of None, a str or a dict
Truthy(v) == v # None /\ v # <<>> /\ v # EmptyDict

\* Python's `a or b`
Or(a, b) == IF Truthy(a) THEN a ELSE b

Max(a, b) == IF a >= b THEN a ELSE b
Min(a, b) == IF a <= b THEN a ELSE b

\* s[:n]
Truncate(s, n) == SubSeq(s, 1, Min(Len(s), n))

\* A key that a dict does not have.
Absent == <<"absent">>

\* error_message[:2000] of insert_failed and mark_failed
ErrorMax == 2000

VARIABLES
  \* --- quota ledger (user_daily_question_usage) and its callers
  usage,      \* [QKeys -> row or NoRow]
  qpc,        \* [QProcs -> "idle" | "lookup"]
  qcall,      \* [QProcs -> the call in progress]
  qret,       \* [QProcs -> the last call's result, or NoRet]
  qn,         \* [QProcs -> calls started]
  qhist,      \* [QKeys -> history of the calls returned for the key]
  \* --- raw-item ingestion (raw_items, item_translations) and its workers
  feed,       \* the requests the fetcher may post in this run
  raw_items,  \* sequence of rows; a row's id is its position
  item_translations,  \* sequence of translation rows
  clock,      \* wall clock (datetime.now)
  ipc,        \* [IProcs -> "idle" | "write" | "stage"]
  ireq,       \* [IProcs -> the request being handled]
  idata,      \* [IProcs -> its canonical record]
  ires,       \* [IProcs -> the repository's write result]
  rejects,    \* the requests the service answered with HTTP 400
  ingests,    \* requests taken so far
  ilog,       \* the writes made through a valid source, in order
  llm_calls,  \* calls made to the model gateway
  ipayload,   \* [IProcs -> what handle_raw_item gave its caller]
  store_faults,  \* the store can refuse the writes of a translation
  \* --- LINE webhook (line_webhook_events, users) and its handlers
  wsent,      \* the event batch the channel delivers, and redelivers
  webhook_events,  \* the ledger: the event ids registered
  wactive,    \* [WUsers -> "none" | "active" | "inactive"]
  replies,    \* reply_text calls made
  asks,       \* LorekeeperAgentService.ask calls made
  wpc,        \* [WProcs -> "idle" | "loop" | "route"]
  widx,       \* [WProcs -> index in the batch of the event being handled]
  wstat,      \* [WProcs -> counters of the call in progress]
  wres,       \* [WProcs -> the last call's response, or NoWRes]
  deliveries, \* handle_body calls started
  returned,   \* handle_body calls that returned
  wlog,       \* [event id -> what the handlers did with its occurrences]
  \* --- users (the columns the upserts of dispatch and ask can meet)
  user_rows,  \* [WUsers -> the user's row, or NoUserRow]
  ulast,      \* the last upsert: who made it, for whom, with which values
  uops,       \* upserts made
  \* --- the three ingest paths on one request
  creq,       \* the request posted to the paths
  canon,      \* sequence: the path taken, its canonical record, `inserted`
  \* --- Bard (users, agent_runs, line_push_messages)
  push_users, \* [WUsers -> display name of the user's row, or NoUser]
  agent_runs, \* sequence of rows, the row's id is its index
  line_push_messages,  \* sequence of rows, the row's id is its index
  bworld,     \* the calls of this run: how many, and what they are given
  bpc,        \* [BProcs -> "idle" | "generate" | "deliver"]
  bcall,      \* [BProcs -> the call in progress, or NoBCall]
  bres,       \* [BProcs -> the last call's outcome, or NoBRes]
  pushes,     \* create_push_and_deliver calls started
  \* --- Lorekeeper (users.daily_question_limit, user_queries)
  daily_question_limit,  \* the column of the user's row: NullLimit or a number
  user_queries,  \* sequence of rows, the row's id is its index
  apc,        \* [AProcs -> "idle" | "lookup" | "reject" | "answer"]
  acall,      \* [AProcs -> the call in progress, or NoACall]
  ares,       \* [AProcs -> the last call's response, or NoARes]
  asked,      \* ask calls started
  faulted,    \* ask calls in which a store write raised
  \* --- model gateway (LLMGateway)
  gworld,     \* the configurations and calls of this run, and the gateway's
              \* constructor arguments and environment
  tenants,    \* _tenants: [GTenantIds -> TenantConfig or NoCfg]
  model_cache,  \* _model_cache: function from cache keys to handles
  gpc,        \* [GProcs -> "idle" | "build" | "call"]
  gcall,      \* [GProcs -> the call in progress, or NoGCall]
  gres,       \* [GProcs -> the last call's outcome, or NoGRes]
  invokes,    \* gateway calls started
  registers   \* register_tenant calls made

qvars == <<usage, qpc, qcall, qret, qn, qhist>>

ivars == <<feed, raw_items, item_translations, clock, ipc, ireq, idata, ires,
           rejects, ingests, ilog, llm_calls, ipayload, store_faults>>

uvars == <<user_rows, ulast, uops, creq, canon>>

wvars == <<wsent, webhook_events, wactive, replies, asks, wpc, widx, wstat,
           wres, deliveries, returned, wlog>>

vars == <<usage, qpc, qcall, qret, qn, qhist,
          feed, raw_items, item_translations, clock, ipc, ireq, idata, ires,
          rejects, ingests, ilog, llm_calls, ipayload, store_faults,
          wsent, webhook_events, wactive, replies, asks, wpc, widx, wstat,
          wres, deliveries, returned, wlog, user_rows, ulast, uops, creq, canon,
          push_users, agent_runs, line_push_messages, bworld, bpc, bcall,
          bres, pushes,
          daily_question_limit, user_queries, apc, acall, ares, asked, faulted,
          gworld, tenants, model_cache, gpc, gcall, gres, invokes, registers>>

gvars == <<gworld, tenants, model_cache, gpc, gcall, gres, invokes, registers>>

avars == <<daily_question_limit, user_queries, apc, acall, ares, asked,
           faulted>>

bvars == <<push_users, agent_runs, line_push_messages, bworld, bpc, bcall,
           bres, pushes>>

\* ------------------------------------------------------------- quota ledger
QUsers == 1..MaxUser
QDays == 1..MaxDay
QLimits == 0..MaxLimit
QProcs == 1..MaxQProc
QKeys == QUsers \X QDays

NoRow == [used_count |-> -1, limit_count |-> -1]
NoCall == [user_id |-> 0, usage_date |-> 0, limit_count |-> 0]
NoRet == [allowed |-> FALSE, used_count |-> -1, limit_count |-> -1, remaining |-> -1]

\* The conflict-aware upsert of consume_daily_quota, on the row of its key:
\* INSERT (used_count 1, limit_count L) when the key has no row; ON CONFLICT
\* DO UPDATE used_count + 1 WHERE used_count < limit_count.
\* Mutant of UpsertReturnsRow: the update is guarded by the limit passed in.
UpsertReturnsRowByArgument(row, limit) ==
  row = NoRow \/ row.used_count < limit

UpsertReturnsRow(row, limit) ==
  row = NoRow \/ row.used_count < row.limit_count

\* Mutant of UpsertRow: the conflict branch does not count.
UpsertRowUncounted(row, limit) ==
  IF row = NoRow THEN [used_count |-> 1, limit_count |-> limit] ELSE row

UpsertRow(row, limit) ==
  IF row = NoRow
    THEN [used_count |-> 1, limit_count |-> limit]
    ELSE IF row.used_count < row.limit_count
      THEN [row EXCEPT !.used_count = @ + 1]
      ELSE row

QuotaResult(allowed, row) ==
  [allowed |-> allowed, used_count |-> row.used_count,
   limit_count |-> row.limit_count,
   remaining |-> Max(row.limit_count - row.used_count, 0)]

\* The response when even the read-back finds no row.
QuotaFallback(limit) ==
  [allowed |-> FALSE, used_count |-> 0, limit_count |-> limit, remaining |-> limit]

QuotaReturned(h, limit, res) ==
  [calls |-> h.calls + 1,
   granted |-> h.granted + (IF res.allowed THEN 1 ELSE 0),
   limits |-> h.limits \cup {limit}]

QuotaInit ==
  /\ usage = [k \in QKeys |-> NoRow]
  /\ qpc = [p \in QProcs |-> "idle"]
  /\ qcall = [p \in QProcs |-> NoCall]
  /\ qret = [p \in QProcs |-> NoRet]
  /\ qn = [p \in QProcs |-> 0]
  /\ qhist = [k \in QKeys |-> [calls |-> 0, granted |-> 0, limits |-> {}]]

\* consume_daily_quota, first statement: the upsert. A returned row ends the
\* call (allowed); otherwise the call goes on to the read-back.
ConsumeUpsert(p, u, d, limit) ==
  /\ qpc[p] = "idle"
  /\ qn[p] < MaxQCalls
  /\ LET k == <<u, d>>
         row == usage[k]
         new == UpsertRow(row, limit)
     IN /\ usage' = [usage EXCEPT ![k] = new]
        /\ qn' = [qn EXCEPT ![p] = @ + 1]
        /\ qcall' = [qcall EXCEPT ![p] =
                       [user_id |-> u, usage_date |-> d, limit_count |-> limit]]
        /\ IF UpsertReturnsRow(row, limit)
             THEN /\ qret' = [qret EXCEPT ![p] = QuotaResult(TRUE, new)]
                  /\ qhist' = [qhist EXCEPT ![k] =
                                 QuotaReturned(@, limit, QuotaResult(TRUE, new))]
                  /\ qpc' = qpc
             ELSE /\ qpc' = [qpc EXCEPT ![p] = "lookup"]
                  /\ UNCHANGED <<qret, qhist>>
  /\ UNCHANGED <<ivars, wvars, bvars, avars, gvars, uvars>>

\* consume_daily_quota, second statement: the read-back of a denied call.
ConsumeLookup(p) ==
  /\ qpc[p] = "lookup"
  /\ LET k == <<qcall[p].user_id, qcall[p].usage_date>>
         row == usage[k]
         res == IF row # NoRow THEN QuotaResult(FALSE, row)
                ELSE QuotaFallback(qcall[p].limit_count)
     IN /\ qret' = [qret EXCEPT ![p] = res]
        /\ qhist' = [qhist EXCEPT ![k] = QuotaReturned(@, qcall[p].limit_count, res)]
  /\ qpc' = [qpc EXCEPT ![p] = "idle"]
  /\ UNCHANGED <<usage, qcall, qn>>
  /\ UNCHANGED <<ivars, wvars, bvars, avars, gvars, uvars>>

NextQuota ==
  \/ \E p \in QProcs, u \in QUsers, d \in QDays, limit \in QLimits :
       ConsumeUpsert(p, u, d, limit)
  \/ \E p \in QProcs : ConsumeLookup(p)

\* ------------------------------------------------------------ canonicalizer
\* The default rights policy and the JSON encoding of a non-string value.
DefaultRights == <<"dict", "store_fulltext:false", "mode:rss_summary_link_only">>

IsDict(v) == Len(v) >= 1 /\ v[1] = "dict"

JsonDumps(v) == <<"{">> \o Tail(v) \o <<"}">>

NormalizeRights(value) ==
  IF value = None THEN <<>>
  ELSE IF ~IsDict(value) THEN value
  ELSE JsonDumps(value)

Sep == <<"|", "|">>

DedupInput(source_key, guid, url, title, published) ==
  source_key \o Sep \o Or(guid, <<>>) \o Sep \o url \o Sep \o title
    \o Sep \o Or(published, <<>>)

\* SHA-256 as a collision-free digest: the digest determines its input.
Sha256Hex(s) == <<"sha256(">> \o s \o <<")">>

ItemId(source_key, dedup_key) == source_key \o <<":sha256:">> \o dedup_key

Published(item) == Or(item.isoDate, item.pubDate)

Canonicalize(req, now) ==
  LET item == req.item
      url == Or(Or(item.link, item.url), <<>>)
      title == Or(item.title, <<>>)
      summary == Or(Or(Or(item.summary, item.contentSnippet), item.content), <<>>)
      published == Published(item)
      dedup_key ==
        Sha256Hex(DedupInput(req.source.source_key, item.guid, url, title, published))
      rights_source == IF item.rights # None THEN item.rights ELSE DefaultRights
  IN [item_id |-> ItemId(req.source.source_key, dedup_key),
      source_id |-> req.source.source_id,
      source_key |-> req.source.source_key,
      url |-> url,
      title |-> title,
      summary |-> summary,
      published_at |-> published,
      fetched_at |-> now,
      lang |-> <<"e", "n">>,
      dedup_key |-> dedup_key,
      rights |-> NormalizeRights(rights_source),
      raw |-> Or(item.raw, EmptyDict),
      status |-> <<"R", "A", "W">>]

\* The logical item of a request: (source_key, guid-or-empty, url, title,
\* published-or-empty).
Logical(req) ==
  LET d == Canonicalize(req, 0)
  IN <<req.source.source_key, Or(req.item.guid, <<>>), d.url, d.title,
       Or(d.published_at, <<>>)>>

\* --------------------------------------------------------------- item store
\* Table sources.
SourcesTable ==
  { [id |-> 1, source_key |-> <<"s">>, enabled |-> TRUE],
    [id |-> 3, source_key |-> <<"d">>, enabled |-> FALSE] }

ValidateSource(source_id, source_key) ==
  \E s \in SourcesTable :
    s.id = source_id /\ s.source_key = source_key /\ s.enabled = TRUE

\* INSERT ... ON CONFLICT (dedup_key) DO UPDATE SET fetched_at =
\* EXCLUDED.fetched_at RETURNING id, (xmax = 0) AS inserted
ConflictIds(rows, data) ==
  {i \in 1..Len(rows) : rows[i].dedup_key = data.dedup_key}

\* Mutant of UpsertRows: ON CONFLICT DO UPDATE overwriting every column.
UpsertRowsReplacing(rows, data) ==
  IF ConflictIds(rows, data) = {}
    THEN Append(rows, data)
    ELSE [i \in 1..Len(rows) |->
            IF i \in ConflictIds(rows, data) THEN data ELSE rows[i]]

UpsertRows(rows, data) ==
  IF ConflictIds(rows, data) = {}
    THEN Append(rows, data)
    ELSE [i \in 1..Len(rows) |->
            IF i \in ConflictIds(rows, data)
              THEN [rows[i] EXCEPT !.fetched_at = data.fetched_at]
              ELSE rows[i]]

UpsertResult(rows, data) ==
  IF ConflictIds(rows, data) = {}
    THEN [raw_item_id |-> Len(rows) + 1, inserted |-> TRUE]
    ELSE [raw_item_id |-> CHOOSE i \in ConflictIds(rows, data) : TRUE,
          inserted |-> FALSE]

NoId == 0

\* RawItemRepo.ingest_raw_item
RepoIngestResult(rows, source_id, source_key, data) ==
  IF ~ValidateSource(source_id, source_key)
    THEN [source_valid |-> FALSE, inserted |-> FALSE, raw_item_id |-> NoId]
    ELSE [source_valid |-> TRUE,
          inserted |-> UpsertResult(rows, data).inserted,
          raw_item_id |-> UpsertResult(rows, data).raw_item_id]

\* Mutant of RepoIngestRows: the upsert runs without the source check.
RepoIngestRowsUnchecked(rows, source_id, source_key, data) ==
  UpsertRows(rows, data)

RepoIngestRows(rows, source_id, source_key, data) ==
  IF ~ValidateSource(source_id, source_key) THEN rows ELSE UpsertRows(rows, data)

\* ------------------------------------------------------- requests of a run
IProcs == {"w1", "w2"}

Requests(srcs, links, urls, guids, titles, sums, snips, conts, isos, pubs, rts, raws) ==
  { [source |-> s,
     item |-> [link |-> l, url |-> u, guid |-> g, title |-> t, summary |-> sm,
               contentSnippet |-> cs, content |-> c, isoDate |-> iso,
               pubDate |-> pub, rights |-> r, raw |-> rw]] :
      s \in srcs, l \in links, u \in urls, g \in guids, t \in titles,
      sm \in sums, cs \in snips, c \in conts, iso \in isos,
      pub \in pubs, r \in rts, rw \in raws }

SrcValid == [source_id |-> 1, source_key |-> <<"s">>]
SrcWrongId == [source_id |-> 2, source_key |-> <<"s">>]
SrcDisabled == [source_id |-> 3, source_key |-> <<"d">>]

\* A feed whose items differ in title and date, "|" among their characters.
FeedBars ==
  Requests({SrcValid}, {<<"u">>}, {None}, {<<"g">>}, {<<"t">>, <<"t", "|">>},
           {None}, {<<"y">>}, {None}, {<<"1">>, <<"|", "1">>}, {None}, {None},
           {None})

\* The same feed with undated items too.
FeedKeys ==
  Requests({SrcValid}, {<<"u">>}, {None}, {<<"g">>}, {<<"t">>, <<"t", "|">>},
           {None}, {<<"y">>}, {None}, {None, <<"1">>, <<"|", "1">>}, {None},
           {None}, {None})

\* A feed of one item posted with and without its dates.
FeedDates ==
  Requests({SrcValid}, {None}, {<<"u">>}, {None}, {None}, {None}, {None},
           {None}, {None, <<"1">>}, {None, <<"2">>}, {None}, {None})

\* A feed of one item posted with different payloads.
FeedPayload ==
  Requests({SrcValid}, {None}, {<<"u">>}, {None}, {<<"t">>}, {None, <<"x">>},
           {None}, {<<"z">>}, {None}, {<<"2">>}, {None, <<"r">>},
           {None, <<"dict", "content:c">>})

\* A feed of one item posted through valid and invalid sources.
FeedSources ==
  Requests({SrcValid, SrcWrongId, SrcDisabled}, {None}, {<<"u">>}, {None},
           {<<"t">>}, {None, <<"x">>}, {None}, {None}, {None}, {None}, {None},
           {None})

Feeds == {FeedBars, FeedDates, FeedPayload, FeedSources}

\* A feed of two items.
FeedTitles ==
  Requests({SrcValid}, {None}, {<<"u">>}, {None}, {<<"t">>, <<"s">>}, {None},
           {None}, {None}, {None}, {None}, {None}, {None})

NoReq == [source |-> [source_id |-> 0, source_key |-> <<>>],
          item |-> [link |-> None, url |-> None, guid |-> None, title |-> None,
                    summary |-> None, contentSnippet |-> None, content |-> None,
                    isoDate |-> None, pubDate |-> None, rights |-> None,
                    raw |-> None]]

NoData == Canonicalize(NoReq, 0)

NoRes == [source_valid |-> FALSE, inserted |-> FALSE, raw_item_id |-> NoId]

\* The translation backend's answers.
TranslationOuts ==
  { [translated_title |-> <<"T">>, translated_summary |-> <<"S">>] }

\* The handler has given nothing to its caller.
NoPayload == [outcome |-> "none"]

IngestBegin(f, faults) ==
  /\ feed = f
  /\ raw_items = <<>>
  /\ item_translations = <<>>
  /\ clock = 1
  /\ ipc = [p \in IProcs |-> "idle"]
  /\ ireq = [p \in IProcs |-> NoReq]
  /\ idata = [p \in IProcs |-> NoData]
  /\ ires = [p \in IProcs |-> NoRes]
  /\ rejects = {}
  /\ ingests = 0
  /\ ilog = <<>>
  /\ llm_calls = 0
  /\ ipayload = [p \in IProcs |-> NoPayload]
  /\ store_faults = faults

IngestStart(f) == IngestBegin(f, FALSE)

\* RssIngestService.ingest_raw_item, first line: canonicalize the request,
\* capturing the timestamp.
IngestCanonicalize(p, req) ==
  /\ ipc[p] = "idle"
  /\ ingests < MaxIngest
  /\ ingests' = ingests + 1
  /\ ireq' = [ireq EXCEPT ![p] = req]
  /\ idata' = [idata EXCEPT ![p] = Canonicalize(req, clock)]
  /\ clock' = clock + 1
  /\ ires' = [ires EXCEPT ![p] = NoRes]
  /\ ipc' = [ipc EXCEPT ![p] = "write"]
  /\ ipayload' = [ipayload EXCEPT ![p] = NoPayload]
  /\ UNCHANGED <<feed, raw_items, item_translations, ilog, llm_calls, rejects,
                 store_faults>>
  /\ UNCHANGED <<qvars, wvars, bvars, avars, gvars, uvars>>

\* RawItemRepo.ingest_raw_item in its transaction, then the service's check
\* of source_valid: HTTP 400 ends the handler before any pipeline stage.
IngestWrite(p) ==
  /\ ipc[p] = "write"
  /\ LET src == ireq[p].source
         res == RepoIngestResult(raw_items, src.source_id, src.source_key, idata[p])
     IN /\ raw_items' = RepoIngestRows(raw_items, src.source_id, src.source_key, idata[p])
        /\ ires' = [ires EXCEPT ![p] = res]
        /\ IF res.source_valid
             THEN /\ ipc' = [ipc EXCEPT ![p] = "stage"]
                  /\ ilog' = Append(ilog, [logical |-> Logical(ireq[p]),
                                           dedup_key |-> idata[p].dedup_key,
                                           raw_item_id |-> res.raw_item_id,
                                           inserted |-> res.inserted,
                                           fetched_at |-> idata[p].fetched_at])
                  /\ UNCHANGED <<ireq, idata, rejects>>
             ELSE /\ ipc' = [ipc EXCEPT ![p] = "idle"]
                  /\ rejects' = rejects \cup {[dedup_key |-> idata[p].dedup_key,
                                                 now |-> idata[p].fetched_at]}
                  /\ ilog' = ilog
                  /\ ireq' = [ireq EXCEPT ![p] = NoReq]
                  /\ idata' = [idata EXCEPT ![p] = NoData]
  /\ UNCHANGED <<feed, item_translations, clock, ingests, llm_calls, ipayload,
                 store_faults>>
  /\ UNCHANGED <<qvars, wvars, bvars, avars, gvars, uvars>>

\* Mutant of StageTranslates: every stored item is translated.
StageTranslatesStored(res) == res.raw_item_id # NoId

\* ItemTranslationService.translate_and_store: only an inserted item is
\* translated.
StageTranslates(res) == res.inserted /\ res.raw_item_id # NoId

\* RssIngestService.ingest_raw_item: the canonical record with the flag and
\* the id of the write; the payload has no translation yet.
IngestPayload(data, res) ==
  [dedup_key |-> data.dedup_key, fetched_at |-> data.fetched_at,
   inserted |-> res.inserted, raw_item_id |-> res.raw_item_id,
   translation |-> Absent]

\* The texts of the exceptions raised inside the try block of
\* translate_and_store.
TranslationErrors(faults) ==
  IF faults THEN {<<"E">>, [i \in 1..(ErrorMax + 1) |-> "e"]} ELSE {<<"E">>}

\* What happens inside translate_and_store: the gateway answers or raises,
\* and the store takes or refuses the DONE row and the FAILED row.
TranslationAttempts(faults) ==
  { [out |-> out, raised |-> raised, error |-> error, insert_ok |-> ins,
     mark_ok |-> mark] :
      out \in TranslationOuts, raised \in BOOLEAN,
      error \in TranslationErrors(faults),
      ins \in (IF faults THEN BOOLEAN ELSE {TRUE}),
      mark \in (IF faults THEN BOOLEAN ELSE {TRUE}) }

\* The try block raised: in _translate or in insert_translation.
AttemptFailed(att) == att.raised \/ ~att.insert_ok

\* ItemTranslationRepo.insert_translation / mark_failed: the row written
TranslationRow(raw_item_id, status, out, error_message) ==
  [raw_item_id |-> raw_item_id, status |-> status,
   translated_title |-> IF status = "DONE" THEN out.translated_title ELSE None,
   translated_summary |-> IF status = "DONE" THEN out.translated_summary
                          ELSE None,
   error_message |-> error_message]

\* Mutant of MarkFailedStatus: the failure is recorded as a success.
MarkFailedStatusDone == "DONE"

\* mark_failed: "status": "FAILED"
MarkFailedStatus == "FAILED"

\* The rows translate_and_store writes for one attempt.
AttemptRows(raw_item_id, att) ==
  IF ~AttemptFailed(att)
    THEN <<TranslationRow(raw_item_id, "DONE", att.out, None)>>
  ELSE IF att.mark_ok
    THEN <<TranslationRow(raw_item_id, MarkFailedStatus, att.out,
                          Truncate(att.error, ErrorMax))>>
  ELSE <<>>

\* payload["translation"] of translate_and_store
TranslationKey(id, att) ==
  IF ~AttemptFailed(att)
    THEN [id |-> id, status |-> "DONE", error |-> None]
    ELSE [id |-> id, status |-> "FAILED", error |-> att.error]

\* RssIngestHandler.handle_raw_item, the pipeline: the translation stage.
\* `given`, `attempt`, `gateway_calls` and `before` note the payload the
\* stage was given, what happened inside it, the calls it made to the
\* gateway and the number of translation rows it met.
IngestStage(p) ==
  /\ ipc[p] = "stage"
  /\ LET given == IngestPayload(idata[p], ires[p])
     IN IF StageTranslates(ires[p])
          THEN /\ llm_calls' = llm_calls + 1
               /\ \E att \in TranslationAttempts(store_faults) :
                    LET rows == AttemptRows(ires[p].raw_item_id, att)
                    IN /\ att.raised => att.insert_ok
                       /\ ~AttemptFailed(att) =>
                            (att.mark_ok /\ att.error = <<"E">>)
                       /\ item_translations' = item_translations \o rows
                       /\ ipayload' = [ipayload EXCEPT ![p] =
                            [outcome |-> IF rows = <<>> THEN "raised"
                                         ELSE "returned",
                             payload |-> [given EXCEPT !.translation =
                               IF rows = <<>> THEN Absent
                               ELSE TranslationKey(Len(item_translations) + 1,
                                                   att)],
                             given |-> given, attempt |-> att,
                             gateway_calls |-> 1,
                             before |-> Len(item_translations)]]
          ELSE /\ UNCHANGED <<llm_calls, item_translations>>
               /\ ipayload' = [ipayload EXCEPT ![p] =
                    [outcome |-> "returned", payload |-> given,
                     given |-> given, attempt |-> Absent,
                     gateway_calls |-> 0,
                     before |-> Len(item_translations)]]
  /\ ipc' = [ipc EXCEPT ![p] = "idle"]
  /\ ireq' = [ireq EXCEPT ![p] = NoReq]
  /\ idata' = [idata EXCEPT ![p] = NoData]
  /\ ires' = [ires EXCEPT ![p] = NoRes]
  /\ UNCHANGED <<feed, raw_items, clock, ingests, ilog, rejects, store_faults>>
  /\ UNCHANGED <<qvars, wvars, bvars, avars, gvars, uvars>>

NextIngest ==
  \/ \E p \in IProcs : \E req \in feed : IngestCanonicalize(p, req)
  \/ \E p \in IProcs : IngestWrite(p)
  \/ \E p \in IProcs : IngestStage(p)

\* ------------------------------------------------------- webhook dispatcher
WProcs == {"h1", "h2"}

WUsers == {<<"U">>}

WEvents(ids, types, users, tokens, messages) ==
  { [webhookEventId |-> i, type |-> t, userId |-> u, replyToken |-> r,
     message |-> m] :
      i \in ids, t \in types, u \in users, r \in tokens, m \in messages }

TextMessage(text) == [type |-> <<"text">>, text |-> text]

\* Events that differ in their ids, and events without id that differ in type.
PoolIds ==
  WEvents({None, <<"1">>, <<"2">>}, {<<"message">>}, {<<"U">>}, {<<"R">>},
          {TextMessage(<<"q">>)})

PoolTypes ==
  WEvents({None}, {<<"follow">>, <<"unfollow">>, <<"message">>, <<"postback">>},
          {<<"U">>}, {<<"R">>}, {TextMessage(<<"q">>)})

WPools == {PoolIds, PoolTypes}

\* Events no handler acts on (a text of blanks, a message that is no text,
\* a message and a follow without user id, a postback), and a question.
PoolQuiet ==
  WEvents({None}, {<<"message">>}, {<<"U">>}, {<<"R">>},
          {TextMessage(<<" ">>), TextMessage(<<"q">>),
           [type |-> <<"image">>, text |-> None]})
  \cup WEvents({None}, {<<"message">>, <<"follow">>}, {None}, {<<"R">>},
               {TextMessage(<<"q">>)})
  \cup WEvents({None}, {<<"postback">>}, {<<"U">>}, {<<"R">>},
               {TextMessage(<<"q">>)})

Batches(pool) == UNION { [1..n -> pool] : n \in 0..MaxBatch }

\* json.dumps(event, sort_keys=True): message, replyToken, source, type,
\* webhookEventId.
EventJson(e) ==
  <<"{">> \o e.message.text \o <<",">> \o e.message.type \o <<",">>
    \o e.replyToken \o <<",">> \o e.userId \o <<",">> \o e.type \o <<",">>
    \o e.webhookEventId \o <<"}">>

\* LineWebhookService._event_id
EventId(e) ==
  IF Truthy(e.webhookEventId) THEN e.webhookEventId
  ELSE Sha256Hex(EventJson(e))

\* Mutant of RegisterInserted: every registration reports a new row.
RegisterInsertedAlways(ledger, event_id) == TRUE

\* LineDeliveryRepo.register_webhook_event: insert-if-absent into the ledger;
\* true when the event id was not registered before.
RegisterInserted(ledger, event_id) == event_id \notin ledger

RegisterLedger(ledger, event_id) == ledger \cup {event_id}

\* Mutant of DedupSkips: no event is skipped.
DedupSkipsNever(inserted) == FALSE

\* handle_body: `if not inserted: dedup_skipped += 1; continue`
DedupSkips(inserted) == ~inserted

IsSpace(c) == c \in {" ", "\n"}

RECURSIVE LStrip(_)
LStrip(s) ==
  IF s = <<>> THEN s
  ELSE IF IsSpace(s[1]) THEN LStrip(Tail(s)) ELSE s

RECURSIVE RStrip(_)
RStrip(s) ==
  IF s = <<>> THEN s
  ELSE IF IsSpace(s[Len(s)]) THEN RStrip(SubSeq(s, 1, Len(s) - 1)) ELSE s

\* str.strip()
Strip(s) == RStrip(LStrip(s))

\* The handler the event is routed to, "none" when no handler acts.
HandlerOf(e) ==
  IF e.type = <<"follow">> THEN "follow"
  ELSE IF e.type = <<"unfollow">> THEN "unfollow"
  ELSE IF e.type = <<"message">> THEN "message"
  ELSE "none"

\* Mutant of MessageAsks: the text is not stripped.
MessageAsksUnstripped(e) ==
  /\ Truthy(e.userId)
  /\ e.message.type = <<"text">>
  /\ Truthy(Or(e.message.text, <<>>))

\* _on_message goes as far as the ask call.
MessageAsks(e) ==
  /\ Truthy(e.userId)
  /\ e.message.type = <<"text">>
  /\ Truthy(Strip(Or(e.message.text, <<>>)))

NoWStat == [processed |-> 0, dedup_skipped |-> 0, routed |-> 0, replay |-> FALSE]

NoWRes == [processed |-> -1, dedup_skipped |-> -1, total_events |-> -1,
           routed |-> 0, replay |-> FALSE, raised |-> FALSE]

\* Nothing was done with the event id.
NoWLog == [processed |-> 0, skipped |-> 0, routed |-> 0, raised |-> 0,
           asks |-> 0, replies |-> 0, skipped_failed |-> 0]

\* Mutant of LedgerAfterRaise: the registration is taken back.
LedgerAfterRaiseUndone(ledger, event_id) == ledger \ {event_id}

\* handle_body has no try around its handlers and the registration was
\* committed by its own statement: the ledger keeps the event id.
LedgerAfterRaise(ledger, event_id) == ledger

\* _on_follow passes is_active=True to upsert_user, whose parameters are
\* line_user_id, display_name and preferred_lang: the call raises TypeError.
FollowRaises(e) == Truthy(e.userId)

\* LorekeeperAgentService.ask returns a response, or raises: its user upsert
\* and its quota call are outside its try block.
AskOutcomes == {"returned", "raised"}

WebhookStart(pools) ==
  /\ wsent \in UNION {Batches(pool) : pool \in pools}
  /\ webhook_events = {}
  /\ wactive = [u \in WUsers |-> "none"]
  /\ replies = 0
  /\ asks = 0
  /\ wpc = [p \in WProcs |-> "idle"]
  /\ widx = [p \in WProcs |-> 0]
  /\ wstat = [p \in WProcs |-> NoWStat]
  /\ wres = [p \in WProcs |-> NoWRes]
  /\ deliveries = 0
  /\ returned = 0
  /\ wlog = [id \in {EventId(wsent[i]) : i \in 1..Len(wsent)} |-> NoWLog]

\* handle_body is called with the batch; `replay` notes whether a call for
\* this batch has returned before.
WebhookBegin(p) ==
  /\ wpc[p] = "idle"
  /\ deliveries < MaxDeliveries
  /\ deliveries' = deliveries + 1
  /\ wpc' = [wpc EXCEPT ![p] = "loop"]
  /\ widx' = [widx EXCEPT ![p] = 1]
  /\ wstat' = [wstat EXCEPT ![p] = [NoWStat EXCEPT !.replay = (returned > 0)]]
  /\ wres' = [wres EXCEPT ![p] = NoWRes]
  /\ UNCHANGED <<wsent, webhook_events, wactive, replies, asks, returned, wlog>>
  /\ UNCHANGED <<qvars, ivars, bvars, avars, gvars, uvars>>

\* The loop body up to the dedup gate: register the event, skip it when it
\* was registered before.
WebhookRegister(p) ==
  /\ wpc[p] = "loop"
  /\ widx[p] <= Len(wsent)
  /\ LET event_id == EventId(wsent[widx[p]])
         inserted == RegisterInserted(webhook_events, event_id)
     IN /\ webhook_events' = RegisterLedger(webhook_events, event_id)
        /\ IF DedupSkips(inserted)
             THEN /\ wstat' = [wstat EXCEPT ![p].dedup_skipped = @ + 1]
                  /\ wlog' = [wlog EXCEPT ![event_id] =
                       [@ EXCEPT !.skipped = @ + 1,
                                 !.skipped_failed =
                                   @ + (IF wlog[event_id].raised > 0
                                          THEN 1 ELSE 0)]]
                  /\ widx' = [widx EXCEPT ![p] = @ + 1]
                  /\ wpc' = wpc
             ELSE /\ wstat' = [wstat EXCEPT ![p].processed = @ + 1]
                  /\ wlog' = [wlog EXCEPT ![event_id].processed = @ + 1]
                  /\ wpc' = [wpc EXCEPT ![p] = "route"]
                  /\ widx' = widx
  /\ UNCHANGED <<wsent, wactive, replies, asks, wres, deliveries, returned>>
  /\ UNCHANGED <<qvars, ivars, bvars, avars, gvars, uvars>>

\* The rest of the loop body: the event goes to _on_follow, _on_unfollow or
\* _on_message, or to no handler. An exception of the handler leaves
\* handle_body: the rest of the batch is not looked at and the caller gets no
\* counters.
WebhookRoute(p) ==
  /\ wpc[p] = "route"
  /\ LET e == wsent[widx[p]]
         h == HandlerOf(e)
         token == Truthy(e.replyToken)
         asking == h = "message" /\ MessageAsks(e)
     IN \E out \in (IF asking THEN AskOutcomes ELSE {"returned"}) :
          LET raised == (h = "follow" /\ FollowRaises(e)) \/ out = "raised"
              replied == /\ token
                         /\ ~raised
                         /\ (h = "follow" /\ Truthy(e.userId)) \/ asking
          IN /\ wactive' =
                  IF h = "follow" /\ Truthy(e.userId) /\ ~raised
                    THEN [wactive EXCEPT ![e.userId] = "active"]
                  ELSE IF h = "unfollow" /\ Truthy(e.userId)
                    THEN [wactive EXCEPT ![e.userId] = "inactive"]
                  ELSE wactive
             /\ asks' = asks + (IF asking THEN 1 ELSE 0)
             /\ replies' = replies + (IF replied THEN 1 ELSE 0)
             /\ wlog' = [wlog EXCEPT ![EventId(e)] =
                   [@ EXCEPT !.routed = @ + (IF h = "none" THEN 0 ELSE 1),
                             !.raised = @ + (IF raised THEN 1 ELSE 0),
                             !.asks = @ + (IF asking THEN 1 ELSE 0),
                             !.replies = @ + (IF replied THEN 1 ELSE 0)]]
             /\ webhook_events' =
                  IF raised THEN LedgerAfterRaise(webhook_events, EventId(e))
                  ELSE webhook_events
             /\ IF raised
                  THEN /\ wpc' = [wpc EXCEPT ![p] = "idle"]
                       /\ widx' = [widx EXCEPT ![p] = 0]
                       /\ wstat' = [wstat EXCEPT ![p] = NoWStat]
                       /\ wres' = [wres EXCEPT ![p] =
                                     [NoWRes EXCEPT !.raised = TRUE]]
                  ELSE /\ wpc' = [wpc EXCEPT ![p] = "loop"]
                       /\ widx' = [widx EXCEPT ![p] = @ + 1]
                       /\ wstat' = [wstat EXCEPT ![p].routed =
                                      @ + (IF h = "none" THEN 0 ELSE 1)]
                       /\ wres' = wres
  /\ UNCHANGED <<wsent, deliveries, returned>>
  /\ UNCHANGED <<qvars, ivars, bvars, avars, gvars, uvars>>

\* handle_body returns its counters.
WebhookReturn(p) ==
  /\ wpc[p] = "loop"
  /\ widx[p] > Len(wsent)
  /\ wres' = [wres EXCEPT ![p] =
               [processed |-> wstat[p].processed,
                dedup_skipped |-> wstat[p].dedup_skipped,
                total_events |-> Len(wsent),
                routed |-> wstat[p].routed,
                replay |-> wstat[p].replay,
                raised |-> FALSE]]
  /\ returned' = returned + 1
  /\ wpc' = [wpc EXCEPT ![p] = "idle"]
  /\ wstat' = [wstat EXCEPT ![p] = NoWStat]
  /\ widx' = [widx EXCEPT ![p] = 0]
  /\ UNCHANGED <<wsent, webhook_events, wactive, replies, asks, deliveries, wlog>>
  /\ UNCHANGED <<qvars, ivars, bvars, avars, gvars, uvars>>

NextWebhook ==
  \/ \E p \in WProcs : WebhookBegin(p)
  \/ \E p \in WProcs : WebhookRegister(p)
  \/ \E p \in WProcs : WebhookRoute(p)
  \/ \E p \in WProcs : WebhookReturn(p)

\* ----------------------------------------------------------- dispatch agent
ZeroUsage == [input_tokens |-> 0, output_tokens |-> 0, total_tokens |-> 0]

\* AgentRunRepo.insert_run: the row written
AgentRunRow(agent, user_id, raw_item_id, query_id, tokens, status, error_message) ==
  [agent |-> agent, user_id |-> user_id, raw_item_id |-> raw_item_id,
   query_id |-> query_id, input_tokens |-> tokens.input_tokens,
   output_tokens |-> tokens.output_tokens, total_tokens |-> tokens.total_tokens,
   status |-> status, error_message |-> error_message]

BProcs == {"b1", "b2"}

\* title[:120]
TitleMax == 120

NoUser == <<"no row">>

NoTranslation == 0

\* Items whose url and summary may each be missing.
FeedPush ==
  Requests({SrcValid}, {None, <<"u">>}, {None}, {None}, {<<"t">>},
           {None, <<"x">>}, {None}, {None}, {None}, {None}, {None}, {None})

\* The rows of raw_items after the first n requests of reqs were ingested one
\* after the other.
RECURSIVE StoreAfter(_, _)
StoreAfter(reqs, n) ==
  IF n = 0 THEN <<>>
  ELSE RepoIngestRows(StoreAfter(reqs, n - 1), reqs[n].source.source_id,
                      reqs[n].source.source_key, Canonicalize(reqs[n], n))

\* One DONE translation for each of the items in done, among the first n.
RECURSIVE TranslationsOf(_, _, _)
TranslationsOf(done, out, n) ==
  IF n = 0 THEN <<>>
  ELSE TranslationsOf(done, out, n - 1) \o
       (IF n \in done
          THEN << [raw_item_id |-> n, status |-> "DONE",
                   translated_title |-> out.translated_title,
                   translated_summary |-> out.translated_summary] >>
          ELSE <<>>)

\* LineDeliveryRepo.upsert_user: display_name = COALESCE(new, old)
UpsertUser(users, line_user_id, display_name) ==
  [users EXCEPT ![line_user_id] =
     IF display_name # None THEN display_name
     ELSE IF @ = NoUser THEN None ELSE @]

\* Mutant of DoneIds: the attempts of the item, whatever their status.
DoneIdsAnyStatus(translations, raw_item_id) ==
  {i \in 1..Len(translations) : translations[i].raw_item_id = raw_item_id}

\* The DONE translations of the item, by id.
DoneIds(translations, raw_item_id) ==
  {i \in 1..Len(translations) :
     translations[i].raw_item_id = raw_item_id /\ translations[i].status = "DONE"}

\* LineDeliveryRepo.fetch_push_source, for an item that exists.
FetchPushSource(rows, translations, raw_item_id) ==
  LET r == rows[raw_item_id]
      done == DoneIds(translations, raw_item_id)
      t == IF done = {} THEN NoTranslation
           ELSE CHOOSE i \in done : \A j \in done : j <= i
  IN [raw_item_id |-> raw_item_id,
      source_title |-> Or(r.title, <<>>),
      source_summary |-> Or(r.summary, <<>>),
      source_url |-> Or(r.url, <<>>),
      translation_id |-> t,
      translated_title |->
        IF t = NoTranslation THEN <<>> ELSE Or(translations[t].translated_title, <<>>),
      translated_summary |->
        IF t = NoTranslation THEN <<>> ELSE Or(translations[t].translated_summary, <<>>)]

PushTitle(source) == Or(source.translated_title, source.source_title)

PushSummary(source) == Or(source.translated_summary, source.source_summary)

\* f"{summary}\n\n{content_url}".strip()
FallbackBody(summary, content_url) ==
  Strip(summary \o <<"\n", "\n">> \o content_url)

\* message[:5000]
LineTextMax == 5000

\* A message body one character longer than what _push_to_line sends.
LongBody == [i \in 1..(LineTextMax + 1) |-> "x"]

\* What the generation backend does: it raises, or answers a JSON object
\* with or without the two keys, or a text that is no JSON object (`parses`),
\* with or without token usage.
Generations ==
  { [raised |-> TRUE, parses |-> FALSE, title |-> None, message_body |-> None,
     usage |-> ZeroUsage, error |-> <<"E">>],
    [raised |-> FALSE, parses |-> TRUE, title |-> <<"G">>,
     message_body |-> <<"B">>,
     usage |-> [input_tokens |-> 1, output_tokens |-> 2, total_tokens |-> 3],
     error |-> None],
    [raised |-> FALSE, parses |-> TRUE, title |-> None, message_body |-> None,
     usage |-> ZeroUsage, error |-> None],
    [raised |-> FALSE, parses |-> FALSE, title |-> <<"G">>,
     message_body |-> <<"B">>,
     usage |-> [input_tokens |-> 1, output_tokens |-> 2, total_tokens |-> 3],
     error |-> None],
    [raised |-> FALSE, parses |-> TRUE, title |-> <<"G">>,
     message_body |-> LongBody,
     usage |-> [input_tokens |-> 1, output_tokens |-> 2, total_tokens |-> 3],
     error |-> None] }

\* Mutant of SafeParseJson: the text is taken for the object it names.
SafeParseJsonLax(gen) == [title |-> gen.title, message_body |-> gen.message_body]

\* _safe_parse_json: the object the content parses to, and the empty dict
\* for a content that is not a JSON object
SafeParseJson(gen) ==
  IF gen.parses THEN [title |-> gen.title, message_body |-> gen.message_body]
  ELSE [title |-> None, message_body |-> None]

\* The title and body of the message: _generate_push_message, and the except
\* branch of create_push_and_deliver.
FinalTitle(gen, title) ==
  IF gen.raised THEN Truncate(title, TitleMax)
  ELSE Truncate(Strip(Or(SafeParseJson(gen).title, title)), TitleMax)

FinalBody(gen, summary, content_url) ==
  IF gen.raised THEN FallbackBody(summary, content_url)
  ELSE Strip(Or(SafeParseJson(gen).message_body,
                summary \o <<"\n", "\n">> \o content_url))

\* What the push API answers.
Deliveries == {TRUE, FALSE}

NoText == <<"no text">>

\* _push_to_line: without LINE_CHANNEL_ACCESS_TOKEN no request is made; with
\* it one request carries message[:5000], and ok is what the API answers.
PushToLine(message, token, ok) ==
  IF ~token THEN [ok |-> FALSE, requests |-> 0, text |-> NoText]
  ELSE [ok |-> ok, requests |-> 1, text |-> Truncate(message, LineTextMax)]

\* send = False: _push_to_line is not called.
NotSent == [ok |-> FALSE, requests |-> 0, text |-> NoText]

DeliveryStatusSent(send, ok) == IF ~send THEN "PENDING" ELSE "SENT"

\* delivery_status: "PENDING", and with send "SENT" or "FAILED" by delivery["ok"]
DeliveryStatus(send, ok) ==
  IF ~send THEN "PENDING" ELSE IF ok THEN "SENT" ELSE "FAILED"

NoBCall == [line_user_id |-> <<>>]

NoBRes == [outcome |-> "none"]

\* The calls of a run: how many there are, and the display names, send
\* flags, generations and channel tokens they meet.
BardWorld(calls, names, sends, gens, tokens) ==
  [calls |-> calls, names |-> names, sends |-> sends, gens |-> gens,
   tokens |-> tokens]

\* One call, of any kind.
WorldSingle ==
  BardWorld(1, {None, <<"n">>}, BOOLEAN, Generations, BOOLEAN)

\* MaxPush calls that are sent, their generation failing or not.
WorldPair ==
  BardWorld(MaxPush, {None}, {TRUE},
            {gen \in Generations : gen.message_body \in {None, <<"B">>}}, {TRUE})

BardStart(worlds) ==
  /\ bworld \in worlds
  /\ push_users = [u \in WUsers |-> NoUser]
  /\ agent_runs = <<>>
  /\ line_push_messages = <<>>
  /\ bpc = [p \in BProcs |-> "idle"]
  /\ bcall = [p \in BProcs |-> NoBCall]
  /\ bres = [p \in BProcs |-> NoBRes]
  /\ pushes = 0

BardQuiet == BardStart({BardWorld(0, {}, {}, {}, {})})

\* The store as ingestion of up to MaxStored requests leaves it, any of its
\* items translated.
StoredStart ==
  /\ feed = FeedPush
  /\ \E reqs \in UNION { [1..n -> FeedPush] : n \in 0..MaxStored } :
        /\ raw_items = StoreAfter(reqs, Len(reqs))
        /\ clock = Len(reqs) + 1
        /\ ingests = Len(reqs)
  /\ \E done \in SUBSET (1..Len(raw_items)) : \E out \in TranslationOuts :
        item_translations = TranslationsOf(done, out, Len(raw_items))
  /\ ipc = [p \in IProcs |-> "idle"]
  /\ ireq = [p \in IProcs |-> NoReq]
  /\ idata = [p \in IProcs |-> NoData]
  /\ ires = [p \in IProcs |-> NoRes]
  /\ rejects = {}
  /\ ilog = <<>>
  /\ llm_calls = 0
  /\ ipayload = [p \in IProcs |-> NoPayload]
  /\ store_faults = FALSE

\* Items with a summary, with or without a url.
FeedSummaries ==
  Requests({SrcValid}, {None, <<"u">>}, {None}, {None}, {<<"t">>},
           {<<"x">>}, {None}, {None}, {None}, {None}, {None}, {None})

\* TranslationOut: two strings, either of which the backend may leave empty.
PushOuts ==
  { [translated_title |-> <<"T">>, translated_summary |-> <<"S">>],
    [translated_title |-> <<"R">>, translated_summary |-> <<>>],
    [translated_title |-> <<>>, translated_summary |-> <<"Q">>] }

\* The rows translate_and_store can leave for an item: a DONE row of what
\* the backend answered, or a FAILED row.
AttemptRowsOf(raw_item_id) ==
  { AttemptRows(raw_item_id,
                [out |-> out, raised |-> raised, error |-> <<"E">>,
                 insert_ok |-> TRUE, mark_ok |-> TRUE])[1] :
      out \in PushOuts, raised \in BOOLEAN }

\* The store after two ingests and up to MaxAttempts translation attempts,
\* of any outcome and in any order.
AttemptedStart ==
  /\ feed = FeedSummaries
  /\ \E reqs \in [1..2 -> FeedSummaries] :
        /\ raw_items = StoreAfter(reqs, Len(reqs))
        /\ clock = Len(reqs) + 1
        /\ ingests = Len(reqs)
  /\ \E n \in 0..MaxAttempts :
        \E rows \in [1..n -> UNION {AttemptRowsOf(id) : id \in 1..Len(raw_items)}] :
          item_translations = rows
  /\ ipc = [p \in IProcs |-> "idle"]
  /\ ireq = [p \in IProcs |-> NoReq]
  /\ idata = [p \in IProcs |-> NoData]
  /\ ires = [p \in IProcs |-> NoRes]
  /\ rejects = {}
  /\ ilog = <<>>
  /\ llm_calls = 0
  /\ ipayload = [p \in IProcs |-> NoPayload]
  /\ store_faults = FALSE

\* One call that is not sent, its generation answering or raising.
WorldSource ==
  BardWorld(1, {None}, {FALSE},
            {gen \in Generations :
               gen.raised \/ (gen.parses /\ gen.message_body = <<"B">>)},
            {TRUE})

\* fetch_push_source: no row of that id
NoSource == [raw_item_id |-> NoId]

MissingNever(source) == FALSE

\* if not source: raise ValueError
Missing(source) == source = NoSource

\* create_push_and_deliver up to the lookup of the item: the user is
\* upserted, then ValueError is raised when the item is not stored.
BardFetch(p, line_user_id, display_name, raw_item_id, send) ==
  /\ bpc[p] = "idle"
  /\ pushes < bworld.calls
  /\ pushes' = pushes + 1
  /\ push_users' = UpsertUser(push_users, line_user_id, display_name)
  /\ LET source == IF raw_item_id \in 1..Len(raw_items)
                      THEN FetchPushSource(raw_items, item_translations,
                                           raw_item_id)
                      ELSE NoSource
     IN IF ~Missing(source)
          THEN /\ bcall' = [bcall EXCEPT ![p] =
                    [line_user_id |-> line_user_id, raw_item_id |-> raw_item_id,
                     send |-> send, source |-> source]]
               /\ bpc' = [bpc EXCEPT ![p] = "generate"]
               /\ bres' = [bres EXCEPT ![p] = NoBRes]
          ELSE /\ bres' = [bres EXCEPT ![p] =
                    [outcome |-> "ValueError", raw_item_id |-> raw_item_id]]
               /\ UNCHANGED <<bcall, bpc>>
  /\ UNCHANGED <<agent_runs, line_push_messages, bworld>>
  /\ UNCHANGED <<qvars, ivars, wvars, avars, gvars, uvars>>

RunStatusDone(gen) == "DONE"

\* llm_status: "DONE", and "FAILED" once the generation raised
RunStatus(gen) == IF gen.raised THEN "FAILED" ELSE "DONE"

InsertedRunIdStale(runs) == Len(runs) - 1

\* The id insert_run returns: that of the row it wrote.
InsertedRunId(runs) == Len(runs)

\* create_push_and_deliver from the generation to insert_run: the message is
\* generated or falls back, and the AgentRun row is written.
BardGenerate(p) ==
  /\ bpc[p] = "generate"
  /\ \E gen \in bworld.gens :
       LET c == bcall[p]
           usage_ == IF gen.raised THEN ZeroUsage ELSE gen.usage
       IN /\ agent_runs' = Append(agent_runs,
               AgentRunRow("Bard", c.line_user_id, c.raw_item_id, NoId, usage_,
                           RunStatus(gen),
                           IF gen.raised THEN gen.error ELSE None))
          /\ bcall' = [bcall EXCEPT ![p] =
               [line_user_id |-> c.line_user_id, raw_item_id |-> c.raw_item_id,
                send |-> c.send, source |-> c.source, gen |-> gen,
                title |-> PushTitle(c.source),
                summary |-> PushSummary(c.source),
                content_url |-> c.source.source_url,
                final_title |-> FinalTitle(gen, PushTitle(c.source)),
                final_body |-> FinalBody(gen, PushSummary(c.source),
                                         c.source.source_url),
                agent_run_id |-> InsertedRunId(agent_runs')]]
  /\ bpc' = [bpc EXCEPT ![p] = "deliver"]
  /\ UNCHANGED <<push_users, line_push_messages, bworld, bres, pushes>>
  /\ UNCHANGED <<qvars, ivars, wvars, avars, gvars, uvars>>

\* The rest of create_push_and_deliver: the delivery, the PushMessage row,
\* the response.
BardDeliver(p) ==
  /\ bpc[p] = "deliver"
  /\ \E token \in bworld.tokens : \E ok \in Deliveries :
       LET c == bcall[p]
           delivery == IF c.send THEN PushToLine(c.final_body, token, ok)
                       ELSE NotSent
           delivery_status == DeliveryStatus(c.send, delivery.ok)
       IN /\ line_push_messages' = Append(line_push_messages,
               [user_id |-> c.line_user_id,
                raw_item_id |-> c.raw_item_id,
                translation_id |-> c.source.translation_id,
                agent_run_id |-> c.agent_run_id,
                title |-> c.final_title,
                message_body |-> c.final_body,
                status |-> delivery_status])
          /\ bres' = [bres EXCEPT ![p] =
               [outcome |-> "returned",
                raised |-> c.gen.raised,
                gen |-> c.gen,
                send |-> c.send,
                user_id |-> c.line_user_id,
                raw_item_id |-> c.raw_item_id,
                agent_run_id |-> c.agent_run_id,
                push_message_id |-> Len(line_push_messages) + 1,
                delivery_status |-> delivery_status,
                message_preview |-> c.final_body,
                token |-> token,
                delivery |-> delivery]]
  /\ bpc' = [bpc EXCEPT ![p] = "idle"]
  /\ bcall' = [bcall EXCEPT ![p] = NoBCall]
  /\ UNCHANGED <<push_users, agent_runs, bworld, pushes>>
  /\ UNCHANGED <<qvars, ivars, wvars, avars, gvars, uvars>>

\* The process stops between insert_run and the delivery: nothing of the
\* rest of create_push_and_deliver runs, and the caller gets no response.
BardCrash(p) ==
  /\ bpc[p] = "deliver"
  /\ bres' = [bres EXCEPT ![p] =
       [outcome |-> "crashed", send |-> bcall[p].send,
        raw_item_id |-> bcall[p].raw_item_id,
        agent_run_id |-> bcall[p].agent_run_id]]
  /\ bpc' = [bpc EXCEPT ![p] = "idle"]
  /\ bcall' = [bcall EXCEPT ![p] = NoBCall]
  /\ UNCHANGED <<push_users, agent_runs, line_push_messages, bworld, pushes>>
  /\ UNCHANGED <<qvars, ivars, wvars, avars, gvars, uvars>>

NextBard ==
  \/ \E p \in BProcs : \E u \in WUsers : \E n \in bworld.names :
       \E id \in 1..(MaxStored + 1) : \E send \in bworld.sends :
         BardFetch(p, u, n, id, send)
  \/ \E p \in BProcs : BardGenerate(p)
  \/ \E p \in BProcs : BardDeliver(p)

\* The dispatch agent in a process that can stop.
NextBardCrash ==
  \/ NextBard
  \/ \E p \in BProcs : BardCrash(p)

\* ------------------------------------------------------------ Q&A agent
AProcs == {"a1", "a2"}

\* COALESCE(daily_question_limit, 5)
DefaultLimit == 5

\* NULL in users.daily_question_limit
NullLimit == -1

\* The values of users.daily_question_limit.
LimitColumn == {NullLimit} \cup QLimits

\* The id of the row of users of the line user.
UserId(line_user_id) == 1

\* get_or_create_user: int(row[3])
UserLimit(column) == IF column = NullLimit THEN DefaultLimit ELSE column

\* What gateway.invoke does for _generate_answer: it raises, or returns a
\* message with content and token usage.
AskGenerations ==
  { [raised |-> TRUE, content |-> None, usage |-> ZeroUsage],
    [raised |-> FALSE, content |-> <<"A">>,
     usage |-> [input_tokens |-> 1, output_tokens |-> 2, total_tokens |-> 3]],
    [raised |-> FALSE, content |-> <<" ">>, usage |-> ZeroUsage] }

DefaultAnswer == <<"no data">>

\* _generate_answer: the stripped content, or the default text
Answer(gen) == Or(Strip(Or(gen.content, <<>>)), DefaultAnswer)

\* UserQueryRepo.insert_query: the row written
QueryRow(user_id, question_text, answer_text, status, rejected_reason) ==
  [user_id |-> user_id, question_text |-> question_text,
   answer_text |-> answer_text, status |-> status,
   rejected_reason |-> rejected_reason]

\* str(exc)[:500], the reason of a FAILED query row
ReasonMax == 500

\* The texts of the exceptions raised inside the try block of ask.
LongError == [i \in 1..(ReasonMax + 1) |-> "e"]

ErrorTexts == {<<"E">>, LongError}

\* Mutant of Reason: the text is stored whole.
ReasonWhole(text) == text

\* rejected_reason of the FAILED row: str(exc)[:500]
Reason(text) == Truncate(text, ReasonMax)

\* The notices returned to the caller as rejected_reason.
DeniedNotice == <<"limit reached">>

BusyNotice == <<"busy">>

\* Where the try block of ask raises: nowhere, in _generate_answer, in
\* insert_query of the answer, or in insert_run after it.
RaisedAt(gen, try) == IF gen.raised THEN "generation" ELSE try

TryFailures == {"none", "insert_query", "insert_run"}

\* The write of the except branch that raises, if one does.
HandlerFailures == {"none", "insert_query", "insert_failed"}

\* The query rows an allowed call writes: the ANSWERED row unless the try
\* block raised before it was written, then the FAILED row of the except
\* branch.
WrittenQueries(call, gen, at, handler, text) ==
  (IF at \in {"none", "insert_run"}
     THEN <<QueryRow(call.user_id, call.question, Answer(gen), "ANSWERED", None)>>
     ELSE <<>>)
  \o (IF at # "none" /\ handler # "insert_query"
        THEN <<QueryRow(call.user_id, call.question, None, "FAILED", Reason(text))>>
        ELSE <<>>)

\* query_id of the except branch: the id insert_query returned for the
\* FAILED row.
FailedQueryId(before, written) == before + Len(written)

\* used_count of the key, 0 when it has no row
UsedOf(row) == IF row = NoRow THEN 0 ELSE row.used_count

\* The quota of the key is used up, for a caller with this limit.
Exhausted(row, limit) ==
  IF row = NoRow THEN limit <= 0 ELSE row.used_count >= row.limit_count

\* Mutant of AskDenied: the answer of the ledger is ignored.
AskDeniedNever(quota) == FALSE

\* ask: `if not quota["allowed"]`
AskDenied(quota) == ~quota.allowed

NoACall == [user_id |-> 0, question |-> 0, usage_date |-> 0, limit_count |-> 0,
            quota |-> NoRet, exhausted |-> FALSE, delta |-> 0, consumes |-> 0]

NoARes == [status |-> "none"]

AskStart ==
  /\ daily_question_limit \in LimitColumn
  /\ user_queries = <<>>
  /\ apc = [p \in AProcs |-> "idle"]
  /\ acall = [p \in AProcs |-> NoACall]
  /\ ares = [p \in AProcs |-> NoARes]
  /\ asked = 0
  /\ faulted = 0

AskQuiet ==
  /\ daily_question_limit = NullLimit
  /\ user_queries = <<>>
  /\ apc = [p \in AProcs |-> "idle"]
  /\ acall = [p \in AProcs |-> NoACall]
  /\ ares = [p \in AProcs |-> NoARes]
  /\ asked = 0
  /\ faulted = 0

\* Where the call goes once the ledger has answered.
AfterQuota(quota) == IF AskDenied(quota) THEN "reject" ELSE "answer"

\* ask up to the upsert of consume_daily_quota: get_or_create_user, today,
\* the upsert statement. `exhausted`, `delta` and `consumes` note the state
\* of the quota the statement met, the change it made to used_count and the
\* consumptions made by the call.
AskConsume(p, line_user_id, d) ==
  /\ apc[p] = "idle"
  /\ asked < MaxAsk
  /\ asked' = asked + 1
  /\ LET u == UserId(line_user_id)
         limit == UserLimit(daily_question_limit)
         k == <<u, d>>
         row == usage[k]
         new == UpsertRow(row, limit)
         call == [user_id |-> u, question |-> asked + 1, usage_date |-> d,
                  limit_count |-> limit,
                  quota |-> NoRet, exhausted |-> Exhausted(row, limit),
                  delta |-> UsedOf(new) - UsedOf(row), consumes |-> 1]
     IN /\ usage' = [usage EXCEPT ![k] = new]
        /\ IF UpsertReturnsRow(row, limit)
             THEN /\ acall' = [acall EXCEPT ![p] =
                         [call EXCEPT !.quota = QuotaResult(TRUE, new)]]
                  /\ apc' = [apc EXCEPT ![p] = AfterQuota(QuotaResult(TRUE, new))]
             ELSE /\ acall' = [acall EXCEPT ![p] = call]
                  /\ apc' = [apc EXCEPT ![p] = "lookup"]
  /\ ares' = [ares EXCEPT ![p] = NoARes]
  /\ UNCHANGED <<qpc, qcall, qret, qn, qhist>>
  /\ UNCHANGED <<daily_question_limit, user_queries, faulted>>
  /\ UNCHANGED <<ivars, wvars, bvars, gvars, uvars>>

\* The read-back of consume_daily_quota when the upsert returned no row.
AskLookup(p) ==
  /\ apc[p] = "lookup"
  /\ LET row == usage[<<acall[p].user_id, acall[p].usage_date>>]
         quota == IF row # NoRow THEN QuotaResult(FALSE, row)
                  ELSE QuotaFallback(acall[p].limit_count)
     IN /\ acall' = [acall EXCEPT ![p].quota = quota]
        /\ apc' = [apc EXCEPT ![p] = AfterQuota(quota)]
  /\ UNCHANGED <<daily_question_limit, user_queries, ares, asked, faulted>>
  /\ UNCHANGED <<qvars, ivars, wvars, bvars, gvars, uvars>>

\* The denied branch: one REJECTED query row, and the response.
AskReject(p) ==
  /\ apc[p] = "reject"
  /\ user_queries' = Append(user_queries,
       QueryRow(acall[p].user_id, acall[p].question, None, "REJECTED",
                <<"DAILY_LIMIT_REACHED">>))
  /\ ares' = [ares EXCEPT ![p] =
       [status |-> "REJECTED", query_id |-> Len(user_queries) + 1,
        answer |-> None, rejected_reason |-> DeniedNotice,
        usage |-> acall[p].quota,
        raised |-> FALSE, exhausted |-> acall[p].exhausted,
        delta |-> acall[p].delta, consumes |-> acall[p].consumes,
        gateway_calls |-> 0, queries |-> 1, runs |-> 0,
        question |-> acall[p].question, raised_at |-> "none",
        handler |-> "none", error |-> None]]
  /\ apc' = [apc EXCEPT ![p] = "idle"]
  /\ acall' = [acall EXCEPT ![p] = NoACall]
  /\ UNCHANGED <<daily_question_limit, asked, faulted>>
  /\ UNCHANGED <<qvars, ivars, wvars, bvars, gvars, uvars>>

\* The allowed branch: generation through the gateway, the ANSWERED row and
\* the DONE AgentRun row; when one of the three raises, the except branch
\* with its FAILED row and FAILED AgentRun row; and the response, or the
\* exception that leaves ask when a write of the except branch raises.
\* `raised_at`, `handler` and `error` note where the try block raised, which
\* write of the except branch raised, and the text of the exception.
AskAnswer(p) ==
  /\ apc[p] = "answer"
  /\ \E gen \in AskGenerations : \E try \in TryFailures :
     \E handler \in HandlerFailures : \E text \in ErrorTexts :
       LET at == RaisedAt(gen, try)
           written == WrittenQueries(acall[p], gen, at, handler, text)
           query_id == IF at = "none" THEN Len(user_queries) + 1
                       ELSE FailedQueryId(Len(user_queries), written)
           runs == IF at = "none"
                     THEN <<AgentRunRow("Lorekeeper", acall[p].user_id, NoId,
                                        query_id, gen.usage, "DONE", None)>>
                   ELSE IF handler = "none"
                     THEN <<AgentRunRow("Lorekeeper", acall[p].user_id, NoId,
                                        query_id, ZeroUsage, "FAILED",
                                        Truncate(text, ErrorMax))>>
                   ELSE <<>>
           status == IF at = "none" THEN "ANSWERED"
                     ELSE IF handler = "none" THEN "FAILED" ELSE "raised"
           faulty == try # "none" \/ handler # "none"
       IN /\ at = "none" => handler = "none"
          /\ gen.raised => try = "none"
          /\ ~faulty => text = <<"E">>
          /\ faulty => faulted < MaxFaulted
          /\ faulted' = faulted + (IF faulty THEN 1 ELSE 0)
          /\ user_queries' = user_queries \o written
          /\ agent_runs' = agent_runs \o runs
          /\ ares' = [ares EXCEPT ![p] =
               [status |-> status, query_id |-> query_id,
                answer |-> IF at = "none" THEN Answer(gen) ELSE None,
                rejected_reason |-> IF status = "FAILED" THEN BusyNotice
                                    ELSE None,
                usage |-> acall[p].quota,
                raised |-> at # "none", exhausted |-> acall[p].exhausted,
                delta |-> acall[p].delta, consumes |-> acall[p].consumes,
                gateway_calls |-> 1, queries |-> Len(written),
                runs |-> Len(runs),
                question |-> acall[p].question, raised_at |-> at,
                handler |-> handler, error |-> text]]
  /\ apc' = [apc EXCEPT ![p] = "idle"]
  /\ acall' = [acall EXCEPT ![p] = NoACall]
  /\ UNCHANGED <<daily_question_limit, asked>>
  /\ UNCHANGED <<push_users, line_push_messages, bworld, bpc, bcall, bres,
                 pushes>>
  /\ UNCHANGED <<qvars, ivars, wvars, gvars, uvars>>

NextAsk ==
  \/ \E p \in AProcs : \E u \in WUsers : \E d \in QDays : AskConsume(p, u, d)
  \/ \E p \in AProcs : AskLookup(p)
  \/ \E p \in AProcs : AskReject(p)
  \/ \E p \in AProcs : AskAnswer(p)

\* ------------------------------------------------------------ model gateway
GProcs == {"g1", "g2"}

OPENAI == <<"o", "p", "e", "n", "a", "i">>
OLLAMA == <<"o", "l", "l", "a", "m", "a">>
CUSTOM == <<"c", "u", "s", "t", "o", "m">>

\* The "::" of _cache_key and register_tenant
Colons == <<":", ":">>

\* Tenant ids: "a", "a::x" and the never registered "z".
TenantA == <<"a">>
TenantAX == <<"a", ":", ":", "x">>
TenantZ == <<"z">>

GTenantIds == {TenantA, TenantAX, TenantZ}

\* str.startswith
StartsWith(k, prefix) ==
  Len(k) >= Len(prefix) /\ SubSeq(k, 1, Len(prefix)) = prefix

\* Inference parameters: a dict over temperature and max_tokens.
NoParams == [temperature |-> Absent, max_tokens |-> Absent]

DefaultParams == [temperature |-> <<"0.2">>, max_tokens |-> Absent]

\* dict.update
Merge(a, b) ==
  [temperature |-> IF b.temperature # Absent THEN b.temperature ELSE a.temperature,
   max_tokens |-> IF b.max_tokens # Absent THEN b.max_tokens ELSE a.max_tokens]

\* str(sorted((params or {}).items()))
ParamsMarker(params) ==
  <<"[">>
   \o (IF params.max_tokens # Absent
         THEN <<"max_tokens=">> \o params.max_tokens ELSE <<>>)
   \o (IF params.temperature # Absent
         THEN <<"temperature=">> \o params.temperature ELSE <<>>)
   \o <<"]">>

\* TenantConfig
Config(tenant_id, provider, model, api_key, base_url) ==
  [tenant_id |-> tenant_id, provider |-> provider, model |-> model,
   api_key |-> api_key, base_url |-> base_url, default_params |-> DefaultParams]

NoCfg == [tenant_id |-> <<>>]

\* The keyword arguments of a call.
Overrides(provider, model, base_url, api_key, params) ==
  [provider |-> provider, model |-> model, base_url |-> base_url,
   api_key |-> api_key, params |-> params]

NoOverrides == Overrides(Absent, Absent, Absent, Absent, NoParams)

\* A call of invoke or with_structured_output.
Call(kind, tenant_id, overrides, messages_ok) ==
  [kind |-> kind, tenant_id |-> tenant_id, overrides |-> overrides,
   messages_ok |-> messages_ok]

\* The constructor arguments and the environment of the gateway.
Env(openai_api_key, env_tenant, env_key, custom_factory, enable_model_cache) ==
  [openai_api_key |-> openai_api_key, env_tenant |-> env_tenant,
   env_key |-> env_key, custom_factory |-> custom_factory,
   enable_model_cache |-> enable_model_cache]

World(cfgs, calls, env) == [cfgs |-> cfgs, calls |-> calls, env |-> env]

\* _resolve_openai_key
ResolveOpenaiKey(env, tenant_id) ==
  IF Truthy(env.openai_api_key) THEN env.openai_api_key
  ELSE IF Truthy(env.env_tenant) THEN env.env_tenant
  ELSE env.env_key

\* _get_chat_model: the provider, model, base url, key and parameters of the
\* call
Resolve(cfg, ov, env) ==
  [provider |-> IF ov.provider # Absent THEN ov.provider ELSE cfg.provider,
   model |-> IF ov.model # Absent THEN ov.model ELSE cfg.model,
   base_url |-> IF ov.base_url # Absent THEN ov.base_url ELSE cfg.base_url,
   api_key |-> Or(Or(IF ov.api_key # Absent THEN ov.api_key ELSE None,
                     cfg.api_key),
                  ResolveOpenaiKey(env, cfg.tenant_id)),
   params |-> Merge(cfg.default_params, ov.params)]

\* _cache_key
CacheKey(tenant_id, provider, model, base_url, api_key, params) ==
  tenant_id \o Colons \o provider \o Colons \o model \o Colons
    \o Or(base_url, <<>>) \o Colons \o <<"k">>
    \o (IF Truthy(api_key) THEN <<"1">> ELSE <<"0">>) \o Colons
    \o ParamsMarker(params)

\* Mutant of KeyOf: the parameters of the call are part of the key.
KeyOfParams(cfg, r) ==
  CacheKey(cfg.tenant_id, r.provider, r.model, r.base_url, r.api_key, r.params)

\* The key _get_chat_model looks the call up by.
KeyOf(cfg, r) ==
  CacheKey(cfg.tenant_id, r.provider, r.model, r.base_url, r.api_key,
           cfg.default_params)

\* _build_provider_model raises ValueError.
BuildRaises(r, env) ==
  IF r.provider = OPENAI THEN ~Truthy(r.api_key)
  ELSE IF r.provider = OLLAMA THEN FALSE
  ELSE IF r.provider = CUSTOM THEN ~env.custom_factory
  ELSE TRUE

\* _build_provider_model: what the handle is configured with, and the
\* configuration it was built from (`cfg`: its tags, its organization, the
\* argument of the custom factory) and the resolution of the call that built
\* it (`resolved`).
Build(cfg, r) ==
  IF r.provider = OPENAI
    THEN [tenant_id |-> cfg.tenant_id, provider |-> r.provider,
          model |-> r.model, base_url |-> r.base_url, api_key |-> r.api_key,
          params |-> r.params, cfg |-> cfg, resolved |-> r]
  ELSE IF r.provider = OLLAMA
    THEN [tenant_id |-> cfg.tenant_id, provider |-> r.provider,
          model |-> r.model, base_url |-> r.base_url, api_key |-> None,
          params |-> r.params, cfg |-> cfg, resolved |-> r]
  ELSE [tenant_id |-> cfg.tenant_id, provider |-> r.provider,
        model |-> cfg.model, base_url |-> cfg.base_url,
        api_key |-> cfg.api_key, params |-> r.params, cfg |-> cfg, resolved |-> r]

\* handle.bind(**params)
Bind(handle, params) == [handle EXCEPT !.params = Merge(@, params)]

\* register_tenant: the cache keys deleted
Evicted(cache, tenant_id) ==
  {k \in DOMAIN cache : StartsWith(k, tenant_id \o Colons)}

\* The cache without some of its keys.
Without(cache, keys) == [k \in (DOMAIN cache) \ keys |-> cache[k]]

\* self._model_cache[cache_key] = built
Store(cache, key, handle) ==
  [k \in (DOMAIN cache) \cup {key} |-> IF k = key THEN handle ELSE cache[k]]

\* The error the call is to fail with, "none" when it is not to fail.
ErrorOf(cfg, r, env) ==
  IF cfg = NoCfg THEN "KeyError"
  ELSE IF BuildRaises(r, env) THEN "ValueError"
  ELSE "none"

NoHandle == [tenant_id |-> <<>>]

NoResolved == [provider |-> <<>>]

NoGCall == [kind |-> "none"]

NoGRes == [outcome |-> "none"]

GRes(outcome, call, cfg, r, handle, hit, backend_calls) ==
  [outcome |-> outcome, call |-> call, cfg |-> cfg, resolved |-> r,
   handle |-> handle, hit |-> hit, backend_calls |-> backend_calls,
   backend |-> "none"]

\* One tenant on openai with or without its own key; calls with and without
\* a key of their own.
WorldKeys(env) ==
  World({Config(TenantA, OPENAI, <<"m">>, None, None),
         Config(TenantA, OPENAI, <<"m">>, <<"t">>, None)},
        {Call("invoke", TenantA,
              Overrides(Absent, Absent, Absent, k, NoParams), TRUE) :
           k \in {Absent, <<"1">>, <<"2">>}},
        env)

\* One tenant on ollama; calls that override model, base url and parameters.
WorldParams(env) ==
  World({Config(TenantA, OLLAMA, <<"m">>, None, None)},
        {Call("invoke", TenantA, NoOverrides, TRUE),
         Call("invoke", TenantA,
              Overrides(Absent, <<"n">>, <<"u">>, Absent, NoParams), TRUE),
         Call("invoke", TenantA,
              Overrides(Absent, Absent, Absent, Absent,
                        [temperature |-> Absent, max_tokens |-> <<"9">>]), TRUE),
         Call("invoke", TenantA,
              Overrides(Absent, Absent, Absent, Absent,
                        [temperature |-> <<"1">>, max_tokens |-> Absent]), TRUE)},
        env)

\* Tenants "a" and "a::x", and calls whose provider and model are given by
\* the call.
WorldNames(env) ==
  World({Config(TenantA, OLLAMA, <<"m">>, None, None),
         Config(TenantAX, OLLAMA, <<"m">>, None, None)},
        {Call("invoke", TenantA, NoOverrides, TRUE),
         Call("invoke", TenantAX, NoOverrides, TRUE),
         Call("invoke", TenantA,
              Overrides(<<"x">>, OLLAMA \o Colons \o <<"m">>, Absent, Absent,
                        NoParams), TRUE)},
        env)

\* Calls that are to fail: a tenant never registered, a provider that is not
\* supported, openai without key, custom without factory, messages that
\* cannot be coerced.
WorldErrors(env) ==
  World({Config(TenantA, OPENAI, <<"m">>, None, None),
         Config(TenantA, CUSTOM, <<"m">>, None, None),
         Config(TenantA, <<"x">>, <<"m">>, None, None)},
        {Call(kind, t, NoOverrides, ok) :
           kind \in {"invoke", "structured"}, t \in {TenantA, TenantZ},
           ok \in BOOLEAN},
        env)

EnvPlain == Env(None, None, None, FALSE, TRUE)

GWorlds ==
  { WorldKeys(EnvPlain),
    WorldKeys(Env(<<"d">>, <<"e">>, <<"g">>, FALSE, TRUE)),
    WorldKeys(Env(None, None, <<"g">>, FALSE, TRUE)),
    WorldParams(EnvPlain),
    WorldParams(Env(None, None, None, FALSE, FALSE)),
    WorldNames(EnvPlain),
    WorldErrors(EnvPlain),
    WorldErrors(Env(None, None, <<"g">>, TRUE, TRUE)) }

GatewayStart(worlds) ==
  /\ gworld \in worlds
  /\ tenants = [t \in GTenantIds |-> NoCfg]
  /\ model_cache = <<>>
  /\ gpc = [p \in GProcs |-> "idle"]
  /\ gcall = [p \in GProcs |-> NoGCall]
  /\ gres = [p \in GProcs |-> NoGRes]
  /\ invokes = 0
  /\ registers = 0

GatewayQuiet == GatewayStart({World({}, {}, EnvPlain)})

\* register_tenant
RegisterTenant(cfg) ==
  /\ registers < MaxRegister
  /\ registers' = registers + 1
  /\ tenants' = [tenants EXCEPT ![cfg.tenant_id] = cfg]
  /\ model_cache' = Without(model_cache, Evicted(model_cache, cfg.tenant_id))
  /\ UNCHANGED <<gworld, gpc, gcall, gres, invokes>>
  /\ UNCHANGED <<qvars, ivars, wvars, bvars, avars, uvars>>

\* _get_chat_model up to the cache lookup: KeyError for a tenant that is not
\* registered, the cached handle bound to the call's parameters on a hit.
GetChatModel(p, call) ==
  /\ gpc[p] = "idle"
  /\ invokes < MaxInvoke
  /\ invokes' = invokes + 1
  /\ LET cfg == tenants[call.tenant_id]
         r == Resolve(cfg, call.overrides, gworld.env)
         key == KeyOf(cfg, r)
     IN IF cfg = NoCfg
          THEN /\ gres' = [gres EXCEPT ![p] =
                     GRes("KeyError", call, cfg, NoResolved, NoHandle, FALSE, 0)]
               /\ UNCHANGED <<gpc, gcall>>
          ELSE /\ gres' = [gres EXCEPT ![p] = NoGRes]
               /\ IF gworld.env.enable_model_cache /\ key \in DOMAIN model_cache
                    THEN /\ gcall' = [gcall EXCEPT ![p] =
                               GRes("none", call, cfg, r,
                                    Bind(model_cache[key], r.params), TRUE, 0)]
                         /\ gpc' = [gpc EXCEPT ![p] = "call"]
                    ELSE /\ gcall' = [gcall EXCEPT ![p] =
                               GRes("none", call, cfg, r, NoHandle, FALSE, 0)]
                         /\ gpc' = [gpc EXCEPT ![p] = "build"]
  /\ UNCHANGED <<gworld, tenants, model_cache, registers>>
  /\ UNCHANGED <<qvars, ivars, wvars, bvars, avars, uvars>>

\* The rest of _get_chat_model: the handle is built, or ValueError raised,
\* and the built handle is stored in the cache.
BuildModel(p) ==
  /\ gpc[p] = "build"
  /\ LET c == gcall[p]
     IN IF BuildRaises(c.resolved, gworld.env)
          THEN /\ gres' = [gres EXCEPT ![p] = [c EXCEPT !.outcome = "ValueError"]]
               /\ gpc' = [gpc EXCEPT ![p] = "idle"]
               /\ gcall' = [gcall EXCEPT ![p] = NoGCall]
               /\ UNCHANGED model_cache
          ELSE /\ gcall' = [gcall EXCEPT ![p].handle = Build(c.cfg, c.resolved)]
               /\ gpc' = [gpc EXCEPT ![p] = "call"]
               /\ model_cache' =
                    IF gworld.env.enable_model_cache
                      THEN Store(model_cache, KeyOf(c.cfg, c.resolved),
                                 Build(c.cfg, c.resolved))
                      ELSE model_cache
               /\ UNCHANGED gres
  /\ UNCHANGED <<gworld, tenants, invokes, registers>>
  /\ UNCHANGED <<qvars, ivars, wvars, bvars, avars, uvars>>

\* What the backend does with a call.
BackendOutcomes == {"returned", "BackendError"}

AttemptsRetried(out) == IF out = "BackendError" THEN 2 ELSE 1

\* The calls of model.invoke that one invoke makes, by what the backend does.
Attempts(out) == 1

\* with_structured_output, the handle in hand: the runnable of the handle, or
\* NotImplementedError for a handle without structured output.
StructuredOutcomes == {"runnable", "NotImplementedError"}

\* The rest of invoke and with_structured_output, the handle in hand:
\* with_structured_output returns a runnable; invoke coerces the messages
\* and calls the backend.
InvokeModel(p) ==
  /\ gpc[p] = "call"
  /\ LET c == gcall[p]
     IN IF c.call.kind = "structured"
          THEN \E out \in StructuredOutcomes :
                 gres' = [gres EXCEPT ![p] = [c EXCEPT !.outcome = out]]
        ELSE IF ~c.call.messages_ok
          THEN gres' = [gres EXCEPT ![p] = [c EXCEPT !.outcome = "CoerceError"]]
        ELSE \E out \in BackendOutcomes :
               gres' = [gres EXCEPT ![p] =
                          [c EXCEPT !.outcome = out, !.backend = out,
                                    !.backend_calls = @ + Attempts(out)]]
  /\ gpc' = [gpc EXCEPT ![p] = "idle"]
  /\ gcall' = [gcall EXCEPT ![p] = NoGCall]
  /\ UNCHANGED <<gworld, tenants, model_cache, invokes, registers>>
  /\ UNCHANGED <<qvars, ivars, wvars, bvars, avars, uvars>>

NextGateway ==
  \/ \E cfg \in gworld.cfgs : RegisterTenant(cfg)
  \/ \E p \in GProcs : \E call \in gworld.calls : GetChatModel(p, call)
  \/ \E p \in GProcs : BuildModel(p)
  \/ \E p \in GProcs : InvokeModel(p)

\* --------------------------------------------------------------- user rows
\* preferred_lang: str = "zh-TW"
DefaultLang == <<"z", "h", "-", "T", "W">>

NoUserRow == [exists |-> FALSE]

UserRow(display_name, preferred_lang, timezone, limit, is_active) ==
  [exists |-> TRUE, display_name |-> display_name,
   preferred_lang |-> preferred_lang, timezone |-> timezone,
   daily_question_limit |-> limit, is_active |-> is_active]

\* The rows another writer may have left: any name, language, timezone,
\* limit and activity.
UserRows ==
  { UserRow(n, l, tz, lim, act) :
      n \in {None, <<"o">>}, l \in {DefaultLang, <<"e", "n">>},
      tz \in {None, <<"T">>}, lim \in {NullLimit, 1}, act \in BOOLEAN }

\* COALESCE(EXCLUDED.c, users.c)
Coalesce(new, old) == IF new # None THEN new ELSE old

\* INSERT INTO users (line_user_id, display_name, preferred_lang, updated_at)
\* ... ON CONFLICT (line_user_id) DO UPDATE SET display_name = COALESCE(...),
\* preferred_lang = COALESCE(...): the statement of upsert_user and of
\* get_or_create_user. The other columns of a new row are the table's
\* defaults.
UpsertUserRow(row, display_name, preferred_lang) ==
  IF ~row.exists
    THEN UserRow(display_name, preferred_lang, None, NullLimit, TRUE)
    ELSE [row EXCEPT !.display_name = Coalesce(display_name, @),
                     !.preferred_lang = Coalesce(preferred_lang, @)]

NoUpsert == [by |-> "none"]

UsersStart ==
  /\ user_rows \in [WUsers -> {NoUserRow} \cup UserRows]
  /\ ulast = NoUpsert
  /\ uops = 0
  /\ creq = NoReq
  /\ canon = <<>>

UsersQuiet ==
  /\ user_rows = [u \in WUsers |-> NoUserRow]
  /\ ulast = NoUpsert
  /\ uops = 0
  /\ creq = NoReq
  /\ canon = <<>>

\* The upsert of an interaction: `by` is "dispatch"
\* (create_push_and_deliver: upsert_user(line_user_id, display_name)) or
\* "ask" (ask: get_or_create_user(line_user_id, display_name)). Neither
\* passes preferred_lang, which takes its default.
InteractionUpsert(by, line_user_id, display_name) ==
  /\ uops < MaxUpserts
  /\ uops' = uops + 1
  /\ user_rows' = [user_rows EXCEPT ![line_user_id] =
                 UpsertUserRow(@, display_name, DefaultLang)]
  /\ ulast' = [by |-> by, line_user_id |-> line_user_id,
               display_name |-> display_name, before |-> user_rows[line_user_id]]
  /\ UNCHANGED <<creq, canon>>
  /\ UNCHANGED <<qvars, ivars, wvars, bvars, avars, gvars>>

NextUsers ==
  \/ \E u \in WUsers : \E n \in {None, <<"n">>} :
       InteractionUpsert("dispatch", u, n)
  \/ \E u \in WUsers : \E n \in {None, <<"n">>} :
       InteractionUpsert("ask", u, n)

\* ------------------------------------------------------ the ingest paths
\* _canonicalize of the /v1/rss route (api/v1/rss_update.py): the summary is
\* taken from contentSnippet, content, summary in this order.
CanonicalizeRoute(req, now) ==
  LET item == req.item
      url == Or(Or(item.link, item.url), <<>>)
      title == Or(item.title, <<>>)
      summary == Or(Or(Or(item.contentSnippet, item.content), item.summary), <<>>)
      published == Or(item.isoDate, item.pubDate)
      dedup_key ==
        Sha256Hex(DedupInput(req.source.source_key, item.guid, url, title, published))
      rights_source == IF item.rights # None THEN item.rights ELSE DefaultRights
  IN [item_id |-> ItemId(req.source.source_key, dedup_key),
      source_id |-> req.source.source_id,
      source_key |-> req.source.source_key,
      url |-> url,
      title |-> title,
      summary |-> summary,
      published_at |-> published,
      fetched_at |-> now,
      lang |-> <<"e", "n">>,
      dedup_key |-> dedup_key,
      rights |-> NormalizeRights(rights_source),
      raw |-> Or(item.raw, EmptyDict),
      status |-> <<"R", "A", "W">>]

\* Mutant of CanonicalizeLegacy: the date is pubDate before isoDate.
CanonicalizeLegacyByPubDate(req, now) ==
  LET item == req.item
      url == Or(Or(item.link, item.url), <<>>)
      title == Or(item.title, <<>>)
      summary == Or(Or(Or(item.contentSnippet, item.content), item.summary), <<>>)
      published == Or(item.pubDate, item.isoDate)
      dedup_key ==
        Sha256Hex(DedupInput(req.source.source_key, item.guid, url, title, published))
  IN [item_id |-> ItemId(req.source.source_key, dedup_key),
      source_id |-> req.source.source_id,
      source_key |-> req.source.source_key,
      url |-> url,
      title |-> title,
      summary |-> summary,
      published_at |-> published,
      fetched_at |-> now,
      lang |-> <<"e", "n">>,
      dedup_key |-> dedup_key,
      rights |-> DefaultRights,
      raw |-> Or(item.raw, EmptyDict),
      status |-> <<"R", "A", "W">>]

\* _canonicalize of the legacy app.py: as the route's, its item has no
\* rights field and the rights are the default dict.
CanonicalizeLegacy(req, now) ==
  LET item == req.item
      url == Or(Or(item.link, item.url), <<>>)
      title == Or(item.title, <<>>)
      summary == Or(Or(Or(item.contentSnippet, item.content), item.summary), <<>>)
      published == Or(item.isoDate, item.pubDate)
      dedup_key ==
        Sha256Hex(DedupInput(req.source.source_key, item.guid, url, title, published))
  IN [item_id |-> ItemId(req.source.source_key, dedup_key),
      source_id |-> req.source.source_id,
      source_key |-> req.source.source_key,
      url |-> url,
      title |-> title,
      summary |-> summary,
      published_at |-> published,
      fetched_at |-> now,
      lang |-> <<"e", "n">>,
      dedup_key |-> dedup_key,
      rights |-> DefaultRights,
      raw |-> Or(item.raw, EmptyDict),
      status |-> <<"R", "A", "W">>]

Paths == {"service", "route", "legacy"}

CanonOf(path, req, now) ==
  IF path = "service" THEN Canonicalize(req, now)
  ELSE IF path = "route" THEN CanonicalizeRoute(req, now)
  ELSE CanonicalizeLegacy(req, now)

\* Items with or without each of the fields the canonicalizers read.
FeedCanon ==
  Requests({SrcValid}, {None, <<"l">>}, {None, <<"u">>}, {None, <<"g">>},
           {<<"t">>}, {None, <<"s">>}, {None, <<"c">>}, {None},
           {None, <<"i">>}, {None, <<"p">>}, {None}, {None})

CanonStart ==
  /\ user_rows = [u \in WUsers |-> NoUserRow]
  /\ ulast = NoUpsert
  /\ uops = 0
  /\ creq \in FeedCanon
  /\ canon = <<>>

\* The request is posted to one of the three ingest routes: canonicalized
\* by that path, then written by the upsert on dedup_key, which is the same
\* statement in the three.
PathIngest(path) ==
  /\ Len(canon) < MaxCanon
  /\ LET data == CanonOf(path, creq, clock)
     IN /\ raw_items' = UpsertRows(raw_items, data)
        /\ canon' = Append(canon,
             [path |-> path, data |-> data,
              inserted |-> UpsertResult(raw_items, data).inserted])
  /\ clock' = clock + 1
  /\ UNCHANGED <<feed, item_translations, ipc, ireq, idata, ires, rejects,
                 ingests, ilog, llm_calls, ipayload, store_faults>>
  /\ UNCHANGED <<user_rows, ulast, uops, creq>>
  /\ UNCHANGED <<qvars, wvars, bvars, avars, gvars>>

NextCanon == \E path \in Paths : PathIngest(path)

\* ------------------------------------------------------------ specifications
Init ==
  /\ QuotaInit
  /\ \E f \in Feeds : IngestStart(f)
  /\ WebhookStart(WPools)
  /\ BardQuiet
  /\ AskStart
  /\ GatewayStart(GWorlds) /\ UsersQuiet

Next ==
  NextQuota \/ NextIngest \/ NextWebhook \/ NextBard \/ NextAsk \/ NextGateway

Spec == Init /\ [][Next]_vars

\* No event delivered.
WebhookQuiet ==
  /\ wsent = <<>>
  /\ webhook_events = {}
  /\ wactive = [u \in WUsers |-> "none"]
  /\ replies = 0
  /\ asks = 0
  /\ wpc = [p \in WProcs |-> "idle"]
  /\ widx = [p \in WProcs |-> 0]
  /\ wstat = [p \in WProcs |-> NoWStat]
  /\ wres = [p \in WProcs |-> NoWRes]
  /\ deliveries = 0
  /\ returned = 0
  /\ wlog = <<>>

\* The quota ledger under concurrent callers.
InitQuota == QuotaInit /\ IngestStart({}) /\ WebhookQuiet /\ BardQuiet /\ AskQuiet
    /\ GatewayQuiet /\ UsersQuiet

SpecQuota == InitQuota /\ [][NextQuota]_vars

\* The ingestion pipeline under two concurrent workers.
InitIngest ==
  QuotaInit /\ (\E f \in Feeds : IngestStart(f)) /\ WebhookQuiet /\ BardQuiet /\ AskQuiet
    /\ GatewayQuiet /\ UsersQuiet

SpecIngest == InitIngest /\ [][NextIngest]_vars

\* The ingestion pipeline on the feed of dated and undated items with "|".
InitIngestKeys ==
  QuotaInit /\ IngestStart(FeedKeys) /\ WebhookQuiet /\ BardQuiet /\ AskQuiet
    /\ GatewayQuiet /\ UsersQuiet

SpecIngestKeys == InitIngestKeys /\ [][NextIngest]_vars

\* The ingestion pipeline over a store that can refuse the writes of the
\* translation stage.
InitTranslate ==
  QuotaInit /\ IngestBegin(FeedTitles, TRUE)
    /\ WebhookQuiet /\ BardQuiet /\ AskQuiet /\ GatewayQuiet /\ UsersQuiet

SpecTranslate == InitTranslate /\ [][NextIngest]_vars

\* The webhook dispatcher under two concurrent handlers.
InitWebhook ==
  QuotaInit /\ IngestStart({}) /\ WebhookStart(WPools) /\ BardQuiet /\ AskQuiet
    /\ GatewayQuiet /\ UsersQuiet

SpecWebhook == InitWebhook /\ [][NextWebhook]_vars

\* The webhook dispatcher on batches of events that lead to no action.
InitWebhookQuiet ==
  QuotaInit /\ IngestStart({}) /\ WebhookStart({PoolQuiet}) /\ BardQuiet
    /\ AskQuiet /\ GatewayQuiet /\ UsersQuiet

SpecWebhookQuiet == InitWebhookQuiet /\ [][NextWebhook]_vars

\* The dispatch agent over a filled store.
InitBard ==
  QuotaInit /\ StoredStart /\ WebhookQuiet /\ BardStart({WorldSingle})
    /\ AskQuiet /\ GatewayQuiet /\ UsersQuiet

SpecBard == InitBard /\ [][NextBard]_vars

\* The dispatch agent over a filled store, in a process that can stop.
SpecBardCrash == InitBard /\ [][NextBardCrash]_vars

\* The store with one item and no translation.
OneItemStart ==
  /\ StoredStart
  /\ Len(raw_items) = 1
  /\ item_translations = <<>>

\* The dispatch agent under concurrent callers, over a store of one item.
InitBardPair ==
  QuotaInit /\ OneItemStart /\ WebhookQuiet /\ BardStart({WorldPair})
    /\ AskQuiet /\ GatewayQuiet /\ UsersQuiet

SpecBardPair == InitBardPair /\ [][NextBard]_vars

\* The dispatch agent over a store with translation attempts.
InitBardSource ==
  QuotaInit /\ AttemptedStart /\ WebhookQuiet /\ BardStart({WorldSource})
    /\ AskQuiet /\ GatewayQuiet /\ UsersQuiet

SpecBardSource == InitBardSource /\ [][NextBard]_vars

\* The user upserts of dispatch and ask over the rows they can meet.
InitUsers ==
  QuotaInit /\ IngestStart({}) /\ WebhookQuiet /\ BardQuiet /\ AskQuiet
    /\ GatewayStart({World({}, {}, EnvPlain)}) /\ UsersStart

SpecUsers == InitUsers /\ [][NextUsers]_vars

\* One request posted to the three ingest paths, in any order.
InitCanon ==
  QuotaInit /\ IngestStart({}) /\ WebhookQuiet /\ BardQuiet /\ AskQuiet
    /\ GatewayStart({World({}, {}, EnvPlain)}) /\ CanonStart

SpecCanon == InitCanon /\ [][NextCanon]_vars

\* The Q&A agent under two concurrent callers.
InitAsk ==
  QuotaInit /\ IngestStart({}) /\ WebhookQuiet /\ BardQuiet /\ AskStart
    /\ GatewayQuiet /\ UsersQuiet

SpecAsk == InitAsk /\ [][NextAsk]_vars

\* The model gateway under two concurrent callers.
InitGateway ==
  QuotaInit /\ IngestStart({}) /\ WebhookQuiet /\ BardQuiet /\ AskQuiet
    /\ GatewayStart(GWorlds) /\ UsersQuiet

SpecGateway == InitGateway /\ [][NextGateway]_vars

\* ---------------------------------------------------------------- C1, C2

\* C1: in every reachable state of the ledger every (user_id, usage_date) row
\* has used_count <= limit_count.
C1_UsedWithinLimit ==
  \A k \in QKeys : usage[k] # NoRow => usage[k].used_count <= usage[k].limit_count

QInFlight(k) ==
  \E p \in QProcs : qpc[p] = "lookup" /\ <<qcall[p].user_id, qcall[p].usage_date>> = k

\* C2: once the N >= 1 calls made for a key, all with the same limit L, have
\* returned, exactly min(N, L) of them returned allowed = true.
C2_ExactlyMinGranted ==
  \A k \in QKeys : \A limit \in QLimits :
    (qhist[k].calls >= 1 /\ qhist[k].limits = {limit} /\ ~QInFlight(k))
      => qhist[k].granted = Min(qhist[k].calls, limit)

\* ---------------------------------------------------------------- C3 .. C8

\* Entry i of the log is the first write of its logical item.
FirstOf(i) == \A k \in 1..(i - 1) : ilog[k].logical # ilog[i].logical

\* C3: two ingests of the same logical item through a valid source get the
\* same dedup_key and the same raw_item_id; the first ingest of the item
\* reports inserted = true, every repeat inserted = false.
C3_IdempotentIngest ==
  \A i, j \in 1..Len(ilog) :
    (i < j /\ ilog[i].logical = ilog[j].logical) =>
      /\ ilog[i].dedup_key = ilog[j].dedup_key
      /\ ilog[i].raw_item_id = ilog[j].raw_item_id
      /\ (FirstOf(i) => ilog[i].inserted)
      /\ ~ilog[j].inserted

\* C4: the store never holds two rows with one dedup_key, and of the ingests
\* of one logical item exactly one observes inserted = true.
C4_OneRowOneInserter ==
  /\ \A i, j \in 1..Len(raw_items) :
       raw_items[i].dedup_key = raw_items[j].dedup_key => i = j
  /\ \A i \in 1..Len(ilog) :
       Cardinality({k \in 1..Len(ilog) :
                      ilog[k].logical = ilog[i].logical /\ ilog[k].inserted}) = 1

\* p's write is taken in this step, through a valid source.
WriteStep(p) ==
  /\ ipc[p] = "write"
  /\ ipc'[p] # "write"
  /\ ValidateSource(ireq[p].source.source_id, ireq[p].source.source_key)

\* C5: a write that hits an existing dedup_key leaves every column of every
\* row as it was, but the fetched_at of the row hit, which becomes the new
\* value.
C5_ConflictKeepsColumns ==
  [][\A p \in IProcs :
       (WriteStep(p) /\ ConflictIds(raw_items, idata[p]) # {}) =>
         /\ Len(raw_items') = Len(raw_items)
         /\ \A i \in 1..Len(raw_items) :
              IF raw_items[i].dedup_key = idata[p].dedup_key
                THEN raw_items'[i] =
                       [raw_items[i] EXCEPT !.fetched_at = idata[p].fetched_at]
                ELSE raw_items'[i] = raw_items[i]]_vars

\* A worker has just written onto a row stored with another summary, rights
\* or raw payload.
C5_Witness ==
  \E p \in IProcs :
    /\ ipc[p] = "stage"
    /\ ~ires[p].inserted
    /\ LET row == raw_items[ires[p].raw_item_id]
       IN /\ row.fetched_at = idata[p].fetched_at
          /\ row.summary # idata[p].summary
          /\ row.rights # idata[p].rights
          /\ row.raw # idata[p].raw

\* C6: an ingest through a source that is unknown or disabled returns
\* source_valid = false, inserted = false and no raw_item_id, changes no
\* row, and ends before any pipeline stage.
C6_InvalidSourceWritesNothing ==
  [][\A p \in IProcs :
       ( /\ ipc[p] = "write"
         /\ ipc'[p] # "write"
         /\ ~ValidateSource(ireq[p].source.source_id, ireq[p].source.source_key) )
       => /\ ires'[p] = [source_valid |-> FALSE, inserted |-> FALSE,
                         raw_item_id |-> NoId]
          /\ raw_items' = raw_items
          /\ item_translations' = item_translations
          /\ llm_calls' = llm_calls
          /\ ipc'[p] = "idle"]_vars

\* A request through an invalid source was rejected while the row of its
\* dedup_key keeps an older fetched_at.
C6_Witness ==
  \E r \in rejects : \E i \in 1..Len(raw_items) :
    /\ raw_items[i].dedup_key = r.dedup_key
    /\ raw_items[i].fetched_at < r.now

\* C7: two logical items that differ in any component never get the same
\* dedup_key nor the same stored row.
C7_DedupKeyInjective ==
  \A i, j \in 1..Len(ilog) :
    ilog[i].logical # ilog[j].logical =>
      /\ ilog[i].dedup_key # ilog[j].dedup_key
      /\ ilog[i].raw_item_id # ilog[j].raw_item_id

\* Logical item b is a with a published value in place of none.
PublishedAdded(a, b) ==
  /\ a[1] = b[1] /\ a[2] = b[2] /\ a[3] = b[3] /\ a[4] = b[4]
  /\ a[5] = <<>>
  /\ b[5] # <<>>

\* C8: the first ingest of an item that differs from an ingested one only in
\* that published went from absent to a value gets another dedup_key and is
\* stored as a new row with inserted = true, the earlier row not refreshed.
C8_PublishedMakesNewItem ==
  \A i, j \in 1..Len(ilog) :
    (i < j /\ PublishedAdded(ilog[i].logical, ilog[j].logical) /\ FirstOf(j)) =>
      /\ ilog[i].dedup_key # ilog[j].dedup_key
      /\ ilog[j].inserted
      /\ ilog[i].raw_item_id # ilog[j].raw_item_id
      /\ raw_items[ilog[i].raw_item_id].fetched_at # ilog[j].fetched_at

\* --------------------------------------------------------------------- C9

\* C9: a handle_body call for a batch that an earlier call has handled and
\* returned from answers processed = 0 and dedup_skipped = the number of
\* events, and routes no event to a handler.
C9_ReplaySkipsAll ==
  \A p \in WProcs :
    (wres[p] # NoWRes /\ wres[p].replay) =>
      /\ wres[p].processed = 0
      /\ wres[p].dedup_skipped = wres[p].total_events
      /\ wres[p].routed = 0

\* A replay of a batch of two events, one of them without id, has returned.
C9_Witness ==
  \E p \in WProcs :
    /\ wres[p] # NoWRes
    /\ wres[p].replay
    /\ wres[p].total_events >= 2
    /\ \E i \in 1..Len(wsent) : wsent[i].webhookEventId = None
    /\ \E i \in 1..Len(wsent) : wsent[i].webhookEventId # None

\* -------------------------------------------------------------------- C10

\* C10: a create_push_and_deliver call whose generation raised returns, for
\* every stored item, a delivery status and a non-empty message_preview that
\* is the stored summary (the translated one when there is one) and the
\* stored url, joined and stripped.
C10_FallbackPreview ==
  \A p \in BProcs :
    (bres[p].outcome = "returned" /\ bres[p].raised) =>
      LET source == FetchPushSource(raw_items, item_translations,
                                    bres[p].raw_item_id)
      IN /\ bres[p].delivery_status \in {"PENDING", "SENT", "FAILED"}
         /\ bres[p].message_preview # <<>>
         /\ bres[p].message_preview =
              FallbackBody(PushSummary(source), source.source_url)

\* ---------------------------------------------------------------- C11, C12

\* A step of an ask call after its quota consumption.
AskLaterStep(p) == apc[p] \in {"lookup", "reject", "answer"} /\ apc'[p] # apc[p]

\* C11: an ask call that met a quota not used up and whose generation
\* failed has made one quota consumption, which raised used_count of
\* (user, today) by exactly one, and no later step of an ask call changes
\* the ledger.
C11_ConsumedOnceOnFailure ==
  /\ [](\A p \in AProcs :
         (ares[p].status # "none" /\ ~ares[p].exhausted /\ ares[p].raised) =>
           /\ ares[p].consumes = 1
           /\ ares[p].delta = 1)
  /\ [][\A p \in AProcs : AskLaterStep(p) => usage' = usage]_vars

\* An ask whose generation failed has returned, the row of its key having
\* been there before the call.
C11_Witness ==
  \E p \in AProcs :
    /\ ares[p].status = "FAILED"
    /\ ~ares[p].exhausted
    /\ ares[p].usage.used_count >= 2

\* C12: an ask call that the ledger denied has written one query row, of
\* status REJECTED and reason DAILY_LIMIT_REACHED, returns REJECTED with the
\* ledger's snapshot, has called the gateway never, has written no AgentRun
\* row and has left used_count as it was.
C12_DeniedAskRejects ==
  \A p \in AProcs :
    (ares[p].status # "none" /\ ~ares[p].usage.allowed) =>
      /\ ares[p].status = "REJECTED"
      /\ ares[p].queries = 1
      /\ ares[p].query_id \in 1..Len(user_queries)
      /\ user_queries[ares[p].query_id].status = "REJECTED"
      /\ user_queries[ares[p].query_id].rejected_reason = <<"DAILY_LIMIT_REACHED">>
      /\ ares[p].gateway_calls = 0
      /\ ares[p].runs = 0
      /\ \A r \in 1..Len(agent_runs) :
           user_queries[agent_runs[r].query_id].status # "REJECTED"
      /\ ares[p].delta = 0

\* A denied ask has returned, the quota of its key used up by earlier asks.
C12_Witness ==
  \E p \in AProcs :
    /\ ares[p].status = "REJECTED"
    /\ ~ares[p].usage.allowed
    /\ ares[p].usage.used_count >= 1
    /\ ares[p].usage.remaining = 0

\* -------------------------------------------------------------------- C13

\* A handle is configured as a call resolved: the same provider, model, base
\* url and parameters, and on openai the same key.
ConfiguredAs(handle, r) ==
  /\ handle.provider = r.provider
  /\ handle.model = r.model
  /\ handle.base_url = r.base_url
  /\ handle.params = r.params
  /\ (r.provider = OPENAI => handle.api_key = r.api_key)

\* The call of p reached the backend.
Served(p) == gres[p].outcome \in BackendOutcomes

\* C13: with the handle cache enabled, the handle that serves an invoke is
\* configured with the provider, model, base url, key and parameters that
\* were resolved for that invoke, whatever the cache held before.
C13_ServedAsResolved ==
  \A p \in GProcs :
    (Served(p) /\ gworld.env.enable_model_cache)
      => ConfiguredAs(gres[p].handle, gres[p].resolved)

\* -------------------------------------------------------------------- C14

\* The cache keys whose handle was built for the tenant.
HandlesOf(cache, tenant_id) ==
  {k \in DOMAIN cache : cache[k].tenant_id = tenant_id}

\* C14: register_tenant(cfg) replaces the configuration of cfg.tenant_id and
\* removes from the cache the handles of that tenant and no others; the
\* configurations and handles of every other tenant stay as they were.
C14_RegisterEvictsOwn ==
  [][registers' # registers =>
       \E cfg \in gworld.cfgs :
         /\ tenants' = [tenants EXCEPT ![cfg.tenant_id] = cfg]
         /\ model_cache' =
              Without(model_cache, HandlesOf(model_cache, cfg.tenant_id))]_vars

\* -------------------------------------------------------------------- C15

\* The call of p has ended and was to fail with a not-found or a
\* configuration error.
ToFail(p) ==
  /\ gres[p].outcome # "none"
  /\ ErrorOf(gres[p].cfg, gres[p].resolved, gworld.env) # "none"

\* C15: a call for a tenant that is not registered fails with the not-found
\* error, and a call that resolves to an unsupported provider, to openai
\* without any key or to custom without a factory fails with the
\* configuration error; the backend is not called and the step that raises
\* leaves the cache as it was.
C15_ConfigErrorsRaised ==
  /\ [](\A p \in GProcs :
          ToFail(p) =>
            /\ gres[p].outcome =
                 ErrorOf(gres[p].cfg, gres[p].resolved, gworld.env)
            /\ gres[p].backend_calls = 0)
  /\ [][\A p \in GProcs :
          (gres'[p] # gres[p] /\ gres'[p].outcome \in {"KeyError", "ValueError"})
            => model_cache' = model_cache]_vars

\* -------------------------------------------------------------------- C16

\* The invoke of p has ended.
Invoked(p) == gres[p].outcome # "none" /\ gres[p].call.kind = "invoke"

\* C16: an invoke that gets its handle and its messages calls the backend
\* exactly once, and one that fails before that never calls it; a failure of
\* the backend call is the outcome of the invoke, after that one call.
C16_OneBackendCall ==
  \A p \in GProcs :
    Invoked(p) =>
      /\ gres[p].backend_calls = IF gres[p].backend = "none" THEN 0 ELSE 1
      /\ gres[p].backend = "none" <=>
           gres[p].outcome \in {"KeyError", "ValueError", "CoerceError"}
      /\ gres[p].backend # "none" => gres[p].outcome = gres[p].backend

C16_Witness ==
  \E p \in GProcs :
    /\ Invoked(p)
    /\ gres[p].outcome = "BackendError"
    /\ gres[p].backend_calls = 1

\* -------------------------------------------------------------------- C17

\* The create_push_and_deliver call of p has returned.
Pushed(p) == bres[p].outcome = "returned"

\* C17: a call whose raw item exists writes exactly one AgentRun row, of
\* agent Bard: DONE with the token usage of the backend when the generation
\* succeeded, and otherwise FAILED with the three token counts zero and the
\* text of the error.
C17_OneRunPerPush ==
  /\ Len(agent_runs) =
       Cardinality({p \in BProcs : bpc[p] = "deliver" \/ Pushed(p)})
  /\ \A p \in BProcs :
       Pushed(p) =>
         LET run == agent_runs[bres[p].agent_run_id]
             gen == bres[p].gen
         IN /\ run.agent = "Bard"
            /\ run.user_id = bres[p].user_id
            /\ run.raw_item_id = bres[p].raw_item_id
            /\ run.status = "DONE" <=> ~gen.raised
            /\ run.status \in {"DONE", "FAILED"}
            /\ run.status = "DONE" =>
                 /\ run.input_tokens = gen.usage.input_tokens
                 /\ run.output_tokens = gen.usage.output_tokens
                 /\ run.total_tokens = gen.usage.total_tokens
            /\ run.status = "FAILED" =>
                 /\ run.input_tokens = 0
                 /\ run.output_tokens = 0
                 /\ run.total_tokens = 0
                 /\ run.error_message = gen.error

C17_Witness ==
  \E p \in BProcs :
    /\ Pushed(p)
    /\ bres[p].gen.raised
    /\ agent_runs[bres[p].agent_run_id].status = "FAILED"
    /\ agent_runs[bres[p].agent_run_id].error_message = <<"E">>

\* -------------------------------------------------------------------- C18

\* The status of the AgentRun row of the call of p is that of its generation.
RunFollowsGeneration(p) ==
  agent_runs[bres[p].agent_run_id].status =
    IF bres[p].gen.raised THEN "FAILED" ELSE "DONE"

\* C18 as stated: with send, exactly one push is attempted through the
\* channel, whatever the generation did, and delivery_status is SENT when the
\* channel answers ok and FAILED otherwise; without send no push is attempted
\* and delivery_status is PENDING; the status of the AgentRun row follows the
\* generation alone.
C18_OnePushPerSend ==
  \A p \in BProcs :
    Pushed(p) =>
      /\ bres[p].send =>
           /\ bres[p].delivery.requests = 1
           /\ bres[p].delivery_status =
                IF bres[p].delivery.ok THEN "SENT" ELSE "FAILED"
      /\ ~bres[p].send =>
           /\ bres[p].delivery.requests = 0
           /\ bres[p].delivery_status = "PENDING"
      /\ RunFollowsGeneration(p)

\* C18 amended: with send, one push is attempted through the channel when
\* the channel access token is set and none when it is missing, whatever the
\* generation did, and delivery_status is SENT when a push was attempted and
\* the channel answered ok, FAILED otherwise; without send no push is
\* attempted and delivery_status is PENDING; the status of the AgentRun row
\* follows the generation alone.
C18_OnePushPerSendWithToken ==
  \A p \in BProcs :
    Pushed(p) =>
      /\ bres[p].send =>
           /\ bres[p].delivery.requests = IF bres[p].token THEN 1 ELSE 0
           /\ bres[p].delivery_status =
                IF bres[p].delivery.requests = 1 /\ bres[p].delivery.ok
                  THEN "SENT" ELSE "FAILED"
      /\ ~bres[p].send =>
           /\ bres[p].delivery.requests = 0
           /\ bres[p].delivery_status = "PENDING"
      /\ RunFollowsGeneration(p)

C18_Witness ==
  \E p \in BProcs :
    /\ Pushed(p)
    /\ bres[p].send
    /\ bres[p].gen.raised
    /\ bres[p].delivery.requests = 1
    /\ bres[p].delivery_status = "SENT"

\* -------------------------------------------------------------------- C19

\* C19: for a call with send whose text went out to the channel, the
\* message_preview returned, the message_body of the PushMessage row and the
\* text handed to the channel are the same, for generated and for fallback
\* messages of any length.
C19_PreviewIsPushedText ==
  \A p \in BProcs :
    (Pushed(p) /\ bres[p].send /\ bres[p].delivery.requests = 1) =>
      /\ bres[p].message_preview =
           line_push_messages[bres[p].push_message_id].message_body
      /\ bres[p].message_preview = bres[p].delivery.text

\* -------------------------------------------------------------------- C20

\* C20: every call that returned has written exactly one PushMessage row,
\* and the agent_run_id of every PushMessage row is the id of an AgentRun row
\* of agent Bard, for the same user and raw item, that the same call wrote
\* before: no two rows share one, and the rows not yet referred to are those
\* of the calls still to deliver.
C20_MessageLinksOwnRun ==
  /\ \A i \in 1..Len(line_push_messages) :
       LET m == line_push_messages[i]
       IN /\ m.agent_run_id \in 1..Len(agent_runs)
          /\ agent_runs[m.agent_run_id].agent = "Bard"
          /\ agent_runs[m.agent_run_id].user_id = m.user_id
          /\ agent_runs[m.agent_run_id].raw_item_id = m.raw_item_id
          /\ \A j \in 1..Len(line_push_messages) :
               line_push_messages[j].agent_run_id = m.agent_run_id => j = i
  /\ Len(agent_runs) =
       Len(line_push_messages) + Cardinality({p \in BProcs : bpc[p] = "deliver"})
  /\ \A p \in BProcs :
       Pushed(p) =>
         /\ bres[p].push_message_id \in 1..Len(line_push_messages)
         /\ line_push_messages[bres[p].push_message_id].agent_run_id =
              bres[p].agent_run_id

C20_Witness ==
  /\ Len(line_push_messages) = 2
  /\ line_push_messages[1].agent_run_id = 2
  /\ line_push_messages[2].agent_run_id = 1
  /\ \A p \in BProcs : Pushed(p)

\* -------------------------------------------------------------------- C21

\* The call of p failed with the not-found error.
NotFound(p) == bres[p].outcome = "ValueError"

\* C21: a create_push_and_deliver call for a raw_item_id that is not stored
\* fails with the not-found error, and the call goes no further: it writes
\* no AgentRun and no PushMessage row, and it never reaches the generation
\* (the model gateway) nor the delivery (the messaging channel).
C21_MissingItemNotFound ==
  /\ [](\A p \in BProcs :
         /\ bpc[p] # "idle" => bcall[p].raw_item_id \in 1..Len(raw_items)
         /\ Pushed(p) => bres[p].raw_item_id \in 1..Len(raw_items)
         /\ NotFound(p) => bres[p].raw_item_id \notin 1..Len(raw_items))
  /\ [][\A p \in BProcs :
          (NotFound(p)' /\ bres'[p] # bres[p]) =>
            /\ bpc'[p] = "idle"
            /\ agent_runs' = agent_runs
            /\ line_push_messages' = line_push_messages]_vars

C21_Witness ==
  \E p, q \in BProcs :
    /\ NotFound(p)
    /\ Pushed(q)
    /\ Len(agent_runs) = 1
    /\ Len(line_push_messages) = 1

\* ---------------------------------------------------------------- C22, C23

\* The text t occurs in the text s.
Contains(s, t) ==
  \E i \in 1..(Len(s) - Len(t) + 1) : SubSeq(s, i, i + Len(t) - 1) = t

\* The try block of the ask call of p raised.
TryRaised(p) == ares[p].status # "none" /\ ares[p].raised_at # "none"

\* The ask call of p has returned to its caller.
AskReturned(p) == ares[p].status \in {"ANSWERED", "REJECTED", "FAILED"}

C22_WitnessGeneration ==
  \E p \in AProcs :
    /\ ares[p].status = "FAILED"
    /\ ares[p].raised_at = "generation"

\* The rows of user_queries of a question.
RowsOf(question) ==
  {q \in 1..Len(user_queries) : user_queries[q].question_text = question}

\* C23: every ask call that has returned has written exactly one UserQuery
\* row for its question, and the status of that row is the status returned,
\* wherever a store write or the generation failed inside ask.
C23_OneQueryRowPerAsk ==
  \A p \in AProcs :
    AskReturned(p) =>
      /\ Cardinality(RowsOf(ares[p].question)) = 1
      /\ \A q \in RowsOf(ares[p].question) :
           user_queries[q].status = ares[p].status

\* The same for the calls in which insert_run did not raise after the
\* ANSWERED row was written.
C23_OneQueryRowUnlessLogFails ==
  \A p \in AProcs :
    (AskReturned(p) /\ ares[p].raised_at # "insert_run") =>
      /\ Cardinality(RowsOf(ares[p].question)) = 1
      /\ \A q \in RowsOf(ares[p].question) :
           user_queries[q].status = ares[p].status

\* -------------------------------------------------------------------- C24

\* The handler of p has given its caller a payload or an exception.
Handled(p) == ipayload[p].outcome # "none"

\* The entries of the log of writes that reported inserted = true for a key.
InsertedWrites(key) ==
  {i \in 1..Len(ilog) : ilog[i].dedup_key = key /\ ilog[i].inserted}

\* The workers between a write that reported inserted = true and their
\* translation stage.
AwaitingStage == {p \in IProcs : ipc[p] = "stage" /\ ires[p].inserted}

\* C24: under every interleaving of ingests, each followed by the
\* translation stage, the stage calls the gateway and writes a translation
\* row only for an ingest that reported inserted = true; at most one write
\* per dedup_key reports it, so at most one translation attempt is made per
\* dedup_key and per stored row, and a re-ingest (inserted = false) is given
\* its payload back unchanged, with no gateway call.
C24_TranslateOnlyInserted ==
  /\ [](/\ \A i \in 1..Len(ilog) :
             Cardinality(InsertedWrites(ilog[i].dedup_key)) <= 1
        /\ llm_calls + Cardinality(AwaitingStage) =
             Cardinality({i \in 1..Len(ilog) : ilog[i].inserted})
        /\ \A t, u \in 1..Len(item_translations) :
             item_translations[t].raw_item_id = item_translations[u].raw_item_id
               => t = u
        /\ \A p \in IProcs :
             (Handled(p) /\ ~ipayload[p].given.inserted) =>
               /\ ipayload[p].outcome = "returned"
               /\ ipayload[p].payload = ipayload[p].given
               /\ ipayload[p].payload.translation = Absent
               /\ ipayload[p].gateway_calls = 0)
  /\ [][(llm_calls' # llm_calls \/ item_translations' # item_translations) =>
          \E p \in IProcs :
            /\ ipc[p] = "stage"
            /\ ipc'[p] = "idle"
            /\ ires[p].inserted
            /\ llm_calls' = llm_calls + 1
            /\ \A t \in 1..Len(item_translations) :
                 item_translations'[t] = item_translations[t]
            /\ \A t \in (Len(item_translations) + 1)..Len(item_translations') :
                 /\ t = Len(item_translations) + 1
                 /\ item_translations'[t].raw_item_id = ires[p].raw_item_id]_vars

\* Two ingests of one logical item have been handled: the translation of
\* the first was attempted, the second was given its payload back.
C24_Witness ==
  \E p, q \in IProcs :
    /\ Handled(p)
    /\ Handled(q)
    /\ ipayload[p].given.inserted
    /\ ~ipayload[q].given.inserted
    /\ ipayload[q].given.dedup_key = ipayload[p].given.dedup_key
    /\ ipayload[q].given.raw_item_id = ipayload[p].given.raw_item_id
    /\ llm_calls = 1
    /\ Len(item_translations) = 1

\* -------------------------------------------------------------------- C30

\* The handler of p ran the translation stage on a payload with
\* inserted = true and a raw_item_id.
Attempted(p) ==
  /\ Handled(p)
  /\ ipayload[p].given.inserted
  /\ ipayload[p].given.raw_item_id # NoId

\* The translation rows of a stored item.
TranslationRowsOf(raw_item_id) ==
  {t \in 1..Len(item_translations) :
     item_translations[t].raw_item_id = raw_item_id}

C29_FetchedAtAdvances ==
  [][\A i \in 1..Len(raw_items) :
       raw_items'[i].fetched_at >= raw_items[i].fetched_at]_vars

\* The same for the writes of a worker whose timestamp is the latest one
\* captured: no other ingest canonicalized between its canonicalization and
\* its write.
C29_FetchedAtAdvancesInTurn ==
  [][\A p \in IProcs :
       (ipc[p] = "write" /\ ipc'[p] # "write"
          /\ idata[p].fetched_at = clock - 1) =>
         \A i \in 1..Len(raw_items) :
           raw_items'[i].fetched_at >= raw_items[i].fetched_at]_vars

\* -------------------------------------------------------------------- C25

\* The dispatch of p, with send, stopped after its AgentRun row was written
\* and before the call of the channel.
CrashedBeforeDelivery(p) == bres[p].outcome = "crashed" /\ bres[p].send

\* The PushMessage rows of a dispatch: those that link its AgentRun row.
MessagesOfRun(agent_run_id) ==
  {m \in 1..Len(line_push_messages) :
     line_push_messages[m].agent_run_id = agent_run_id}

\* C25: when a dispatch with send stops after its AgentRun row is written
\* and before the call of the channel, the store holds a PushMessage row of
\* that dispatch whose status shows that it was not delivered.
C25_CrashLeavesUndeliveredRow ==
  \A p \in BProcs :
    CrashedBeforeDelivery(p) =>
      \E m \in MessagesOfRun(bres[p].agent_run_id) :
        line_push_messages[m].status \in {"PENDING", "FAILED"}

\* What the store does hold after such a stop: the AgentRun row of the
\* dispatch, and no PushMessage row that links it.
C25_CrashLeavesRunOnly ==
  \A p \in BProcs :
    CrashedBeforeDelivery(p) =>
      /\ bres[p].agent_run_id \in 1..Len(agent_runs)
      /\ agent_runs[bres[p].agent_run_id].raw_item_id = bres[p].raw_item_id
      /\ MessagesOfRun(bres[p].agent_run_id) = {}

\* -------------------------------------------------------------------- C26

\* The backend answered the call of p with a content that is not a JSON
\* object.
Malformed(p) == Pushed(p) /\ ~bres[p].gen.raised /\ ~bres[p].gen.parses

\* The message of the call of p is the one built from the stored summary
\* and url.
Templated(p) ==
  LET source == FetchPushSource(raw_items, item_translations,
                                bres[p].raw_item_id)
  IN /\ bres[p].message_preview =
          FallbackBody(PushSummary(source), source.source_url)
     /\ line_push_messages[bres[p].push_message_id].message_body =
          bres[p].message_preview
     /\ (bres[p].send /\ bres[p].token) =>
          bres[p].delivery.text = bres[p].message_preview

\* C26: when the backend returns a content that does not parse as a JSON
\* object, create_push_and_deliver delivers the message built from the
\* summary and the url, and the AgentRun row of the dispatch has status
\* FAILED.
C26_MalformedIsFailedRun ==
  \A p \in BProcs :
    Malformed(p) =>
      /\ Templated(p)
      /\ agent_runs[bres[p].agent_run_id].status = "FAILED"

\* What the code does with such a content: the templated message, and an
\* AgentRun row of status DONE with the token usage of the backend.
C26_MalformedIsDoneRun ==
  \A p \in BProcs :
    Malformed(p) =>
      /\ Templated(p)
      /\ agent_runs[bres[p].agent_run_id].status = "DONE"
      /\ agent_runs[bres[p].agent_run_id].total_tokens =
           bres[p].gen.usage.total_tokens

\* -------------------------------------------------------------------- C27

\* No call of the gateway is in progress.
GatewayAtRest == \A p \in GProcs : gpc[p] = "idle"

\* The cache keys whose handle was built from a configuration that is no
\* longer the registered one of its tenant.
StaleHandles ==
  {k \in DOMAIN model_cache :
     model_cache[k].cfg # tenants[model_cache[k].tenant_id]}

\* The call of p was served a handle built from the configuration that was
\* registered when the call started.
ServedOwnConfig(p) == gres[p].handle.cfg = gres[p].cfg

\* C27: on a gateway with the cache enabled, whatever register_tenant and
\* invoke calls ran concurrently, once all of them have completed the cache
\* holds no handle built from a replaced configuration, and every invoke is
\* served a handle built from the configuration registered when it started.
C27_NoStaleHandleAfterRegister ==
  gworld.env.enable_model_cache =>
    /\ GatewayAtRest => StaleHandles = {}
    /\ \A p \in GProcs : Served(p) => ServedOwnConfig(p)

\* The same for the handles that a call builds itself: a call that misses
\* the cache is served a handle built from the configuration it read.
C27_BuiltFromOwnConfig ==
  \A p \in GProcs : (Served(p) /\ ~gres[p].hit) => ServedOwnConfig(p)

\* -------------------------------------------------------------------- C28

\* The call of p has just looked the cache up, on a gateway with the cache
\* enabled.
LooksUp(p) ==
  /\ gworld.env.enable_model_cache
  /\ gpc[p] = "idle"
  /\ gpc'[p] \in {"call", "build"}

\* The handle under key k was built by an earlier invoke of the tenant of
\* the call of p, under the configuration that the call of p reads: no
\* register_tenant has replaced it since.
EarlierHandle(p, k) ==
  /\ k \in DOMAIN model_cache
  /\ model_cache[k].cfg = gcall'[p].cfg

\* The call of p reuses the handle under key k: it looks it up by k, gets it
\* bound to its own parameters, and builds and stores nothing.
Reuses(p, k) ==
  /\ KeyOf(gcall'[p].cfg, gcall'[p].resolved) = k
  /\ gpc'[p] = "call"
  /\ gcall'[p].hit
  /\ gcall'[p].handle = Bind(model_cache[k], gcall'[p].resolved.params)
  /\ model_cache' = model_cache

\* The handle of the call of p has what the call overrides.
OwnOverrides(p) ==
  LET ov == gcall'[p].call.overrides
      handle == gcall'[p].handle
  IN /\ \A key \in DOMAIN ov.params :
          ov.params[key] # Absent => handle.params[key] = ov.params[key]
     /\ ov.provider # Absent => handle.provider = ov.provider
     /\ ov.model # Absent => handle.model = ov.model
     /\ ov.base_url # Absent => handle.base_url = ov.base_url
     /\ (Truthy(ov.api_key) /\ ov.api_key # Absent /\ handle.provider = OPENAI)
          => handle.api_key = ov.api_key

\* The second call has the provider, model, base url and key of the call
\* that built the handle: the two differ in their inference parameters only.
SameTarget(p, k) ==
  LET r == gcall'[p].resolved
      b == model_cache[k].resolved
  IN /\ r.provider = b.provider
     /\ r.model = b.model
     /\ r.base_url = b.base_url
     /\ r.api_key = b.api_key

\* C28 as stated: an invoke that follows, with no register_tenant between
\* them, an invoke of the same tenant that differs from it only in the
\* per-call overrides maps to the same cache key: it reuses the cached
\* handle, re-parameterized with its own overrides, and builds no handle.
C28_OverridesShareKey ==
  [][\A p \in GProcs : \A k \in DOMAIN model_cache :
       (LooksUp(p) /\ EarlierHandle(p, k)) =>
         /\ Reuses(p, k)
         /\ OwnOverrides(p)]_vars

\* C28, amended: the same for two invokes that differ only in their per-call
\* inference parameters, the overrides other than provider, model, base_url
\* and api_key.
C28_ParamsShareKey ==
  [][\A p \in GProcs : \A k \in DOMAIN model_cache :
       (LooksUp(p) /\ EarlierHandle(p, k) /\ SameTarget(p, k)) =>
         /\ Reuses(p, k)
         /\ OwnOverrides(p)]_vars

\* A call with a temperature or max_tokens of its own has been given the
\* handle that a call with other parameters built.
C28_Witness ==
  \E p \in GProcs :
    /\ gpc[p] = "call"
    /\ gcall[p].hit
    /\ gcall[p].call.overrides.params # NoParams
    /\ gcall[p].call.overrides.model = Absent
    /\ gcall[p].handle.resolved.params # gcall[p].resolved.params
    /\ gcall[p].call.overrides.params.temperature = <<"1">>
    /\ gcall[p].handle.params.temperature = <<"1">>
    /\ Cardinality(DOMAIN model_cache) = 1

\* -------------------------------------------------------------------- C31
\* The call of p has the texts of its message: those given to the generation
\* and used by the fallback.
Sourced(p) == bpc[p] = "generate" /\ bpc'[p] = "deliver"

\* The attempts for the item that are DONE, and the most recent of them.
DoneAttempts(raw_item_id) ==
  {i \in 1..Len(item_translations) :
     /\ item_translations[i].raw_item_id = raw_item_id
     /\ item_translations[i].status = "DONE"}

LatestDone(raw_item_id) ==
  CHOOSE i \in DoneAttempts(raw_item_id) :
    \A j \in DoneAttempts(raw_item_id) : j <= i

\* A column of the raw item, as text.
Original(v) == IF v = None THEN <<>> ELSE v

\* C31 as stated: the message of a dispatch is built from the title and the
\* summary of the most recent DONE Translation row of its item, whatever
\* FAILED rows came before or after it, from the original title and summary
\* when the item has no DONE row, and always from the url of the raw item.
C31_LatestDoneTranslation ==
  [][\A p \in BProcs : Sourced(p) =>
       LET c == bcall'[p]
           r == raw_items[c.raw_item_id]
       IN /\ c.content_url = Original(r.url)
          /\ IF DoneAttempts(c.raw_item_id) = {}
               THEN /\ c.title = Original(r.title)
                    /\ c.summary = Original(r.summary)
               ELSE LET t == item_translations[LatestDone(c.raw_item_id)]
                    IN /\ c.title = t.translated_title
                       /\ c.summary = t.translated_summary]_vars

\* C31, amended: the same, a text that the most recent DONE row has empty
\* being replaced by the original text of the raw item.
C31_LatestDoneOrOriginal ==
  [][\A p \in BProcs : Sourced(p) =>
       LET c == bcall'[p]
           r == raw_items[c.raw_item_id]
       IN /\ c.content_url = Original(r.url)
          /\ IF DoneAttempts(c.raw_item_id) = {}
               THEN /\ c.title = Original(r.title)
                    /\ c.summary = Original(r.summary)
               ELSE LET t == item_translations[LatestDone(c.raw_item_id)]
                    IN /\ c.title = IF t.translated_title # <<>>
                                      THEN t.translated_title
                                      ELSE Original(r.title)
                       /\ c.summary = IF t.translated_summary # <<>>
                                        THEN t.translated_summary
                                        ELSE Original(r.summary)]_vars

\* A dispatch whose item has an older DONE row, a more recent DONE row and a
\* FAILED row after both has the texts of the more recent DONE row.
C31_Witness ==
  \E p \in BProcs :
    /\ bpc[p] = "deliver"
    /\ Len(item_translations) = 3
    /\ \A i \in 1..3 : item_translations[i].raw_item_id = bcall[p].raw_item_id
    /\ item_translations[1].status = "DONE"
    /\ item_translations[1].translated_title = <<"R">>
    /\ item_translations[2].status = "DONE"
    /\ item_translations[2].translated_title = <<"T">>
    /\ item_translations[3].status = "FAILED"
    /\ bcall[p].title = <<"T">>
    /\ bcall[p].summary = <<"S">>

\* -------------------------------------------------------------------- C32
\* The event is a follow or an unfollow of a user, or a text message of a
\* user whose trimmed text is not empty.
Acts(e) ==
  /\ e.userId # None
  /\ \/ e.type \in {<<"follow">>, <<"unfollow">>}
     \/ /\ e.type = <<"message">>
        /\ e.message.type = <<"text">>
        /\ e.message.text # None
        /\ \E i \in 1..Len(e.message.text) : ~IsSpace(e.message.text[i])

\* Handler p passes the dedup gate with its current event, and is done with it.
Registers(p) == wpc[p] = "loop" /\ wpc'[p] = "route"

Routes(p) == wpc[p] = "route" /\ wpc'[p] = "loop"

\* C32: a non-duplicate event that is no follow, no unfollow and no text
\* message with a non-empty trimmed text (a message that is not a text or
\* whose text is blank, an event without user id) is registered in the ledger
\* and counted as processed, and its routing changes no user, no quota row,
\* no UserQuery row and no AgentRun row, calls no ask and sends no reply.
C32_OtherEventsOnlyCounted ==
  [][\A p \in WProcs :
       LET e == wsent[widx[p]] IN
       /\ (Registers(p) /\ ~Acts(e)) =>
             /\ EventId(e) \in webhook_events'
             /\ wstat'[p].processed = wstat[p].processed + 1
             /\ wstat'[p].dedup_skipped = wstat[p].dedup_skipped
       /\ (Routes(p) /\ ~Acts(e)) =>
             /\ EventId(e) \in webhook_events
             /\ UNCHANGED <<wactive, asks, replies, webhook_events>>
             /\ UNCHANGED <<usage, user_queries, agent_runs>>
             /\ wstat'[p].processed = wstat[p].processed]_vars

\* A handler is done with a batch of a blank text and a picture, both
\* counted as processed, and nothing else has changed.
C32_Witness ==
  \E p \in WProcs :
    /\ deliveries = 1
    /\ Len(wsent) = 2
    /\ widx[p] = 3
    /\ wsent[1].message.text = <<" ">>
    /\ wsent[1].userId = <<"U">>
    /\ wsent[2].message.type = <<"image">>
    /\ wstat[p].processed = 2
    /\ asks = 0
    /\ replies = 0
    /\ wactive = [u \in WUsers |-> "none"]

\* -------------------------------------------------------------------- C33
\* C33: the routing of a non-duplicate follow event with a user id leaves
\* the user active and sends one welcome reply when the event has a reply
\* token (none otherwise); that of a non-duplicate unfollow event with a user
\* id leaves the user inactive and sends no reply.
C33_FollowActivatesUnfollowDeactivates ==
  [][\A p \in WProcs :
       LET e == wsent[widx[p]] IN
       (wpc[p] = "route" /\ wpc'[p] # "route" /\ e.userId # None) =>
         /\ e.type = <<"follow">> =>
              /\ wactive'[e.userId] = "active"
              /\ replies' = replies + (IF Truthy(e.replyToken) THEN 1 ELSE 0)
         /\ e.type = <<"unfollow">> =>
              /\ wactive'[e.userId] = "inactive"
              /\ replies' = replies]_vars

\* The half of C33 about unfollow events.
C33_UnfollowDeactivates ==
  [][\A p \in WProcs :
       LET e == wsent[widx[p]] IN
       (wpc[p] = "route" /\ wpc'[p] # "route" /\ e.userId # None
          /\ e.type = <<"unfollow">>) =>
         /\ wactive'[e.userId] = "inactive"
         /\ replies' = replies]_vars

\* What the follow handler does: it raises, the user is as before.
C33_FollowRaises ==
  [][\A p \in WProcs :
       LET e == wsent[widx[p]] IN
       (wpc[p] = "route" /\ wpc'[p] # "route" /\ e.userId # None
          /\ e.type = <<"follow">>) =>
         /\ wres'[p].raised
         /\ UNCHANGED <<wactive, replies>>]_vars

\* -------------------------------------------------------------------- C34
\* An interaction has upserted a row that existed.
Refreshed == ulast' # ulast /\ ulast'.before.exists

\* C34: the upsert of a dispatch or of an ask changes a field of an existing
\* User row only when the interaction supplied a non-null value for it: the
\* display name stays when none is given, and preferred_lang, timezone,
\* daily_question_limit and is_active, which these interactions never supply,
\* stay as stored.
C34_OnlySuppliedFieldsChange ==
  [][Refreshed =>
       LET old == ulast'.before
           new == user_rows'[ulast'.line_user_id]
       IN /\ ulast'.display_name = None => new.display_name = old.display_name
          /\ new.preferred_lang = old.preferred_lang
          /\ new.timezone = old.timezone
          /\ new.daily_question_limit = old.daily_question_limit
          /\ new.is_active = old.is_active]_vars

\* What holds of the upsert: all of the above but the language, which is set
\* to the default of the parameter.
C34_LanguageReset ==
  [][Refreshed =>
       LET old == ulast'.before
           new == user_rows'[ulast'.line_user_id]
       IN /\ ulast'.display_name = None => new.display_name = old.display_name
          /\ new.preferred_lang = DefaultLang
          /\ new.timezone = old.timezone
          /\ new.daily_question_limit = old.daily_question_limit
          /\ new.is_active = old.is_active]_vars

\* --------------------------------------------------------------- C35, C36
\* Caller p runs the upsert of a consume_daily_quota call in this step.
Consumes(p) == qn'[p] = qn[p] + 1

KeyOfCall(p) == <<qcall'[p].user_id, qcall'[p].usage_date>>

\* The call of p gets allowed = true (the upsert returned a row).
Granted(p) == Consumes(p) /\ qpc'[p] = "idle" /\ qret'[p].allowed

\* C35: the limit_count of a row is the limit of the call that creates the
\* row and no later call changes it, whatever limit it passes; a call for a
\* row that exists is allowed exactly when the stored used_count is below the
\* stored limit_count, and answers the stored limit_count.
C35_LimitFixedAtCreation ==
  [][/\ \A k \in QKeys :
          usage[k] # NoRow =>
            /\ usage'[k] # NoRow
            /\ usage'[k].limit_count = usage[k].limit_count
     /\ \A p \in QProcs :
          Consumes(p) =>
            LET k == KeyOfCall(p) IN
            IF usage[k] = NoRow
              THEN usage'[k].limit_count = qcall'[p].limit_count
              ELSE /\ Granted(p) <=> usage[k].used_count < usage[k].limit_count
                   /\ Granted(p) => qret'[p].limit_count = usage[k].limit_count
     /\ \A p \in QProcs :
          (qpc[p] = "lookup" /\ qpc'[p] = "idle") =>
            /\ ~qret'[p].allowed
            /\ qret'[p].limit_count = usage[KeyOfCall(p)].limit_count]_vars

\* A call that passed a higher limit than the stored one was denied against
\* the stored one, which the row still has.
C35_Witness ==
  \E p \in QProcs :
    LET k == <<qcall[p].user_id, qcall[p].usage_date>> IN
    /\ qpc[p] = "idle"
    /\ qn[p] > 0
    /\ ~qret[p].allowed
    /\ usage[k] # NoRow
    /\ qcall[p].limit_count > usage[k].limit_count
    /\ qret[p].limit_count = usage[k].limit_count
    /\ usage[k].limit_count >= 1

\* The used_count of a key, 0 when it has no row.
UsedCount(row) == IF row = NoRow THEN 0 ELSE row.used_count

\* C36: a call that returns allowed = false changes no row of the ledger; a
\* call that returns allowed = true raises the used_count of the row of its
\* own (user_id, usage_date) by 1 and changes no other row; no used_count
\* ever decreases.
C36_OnlyGrantedCallsCount ==
  [][/\ \A k \in QKeys : UsedCount(usage'[k]) >= UsedCount(usage[k])
     /\ \A p \in QProcs :
          /\ (Consumes(p) /\ ~Granted(p)) => usage' = usage
          /\ (qpc[p] = "lookup" /\ qpc'[p] = "idle") =>
                (~qret'[p].allowed /\ usage' = usage)
          /\ Granted(p) =>
                /\ UsedCount(usage'[KeyOfCall(p)])
                     = UsedCount(usage[KeyOfCall(p)]) + 1
                /\ \A k \in QKeys \ {KeyOfCall(p)} : usage'[k] = usage[k]]_vars

\* A granted call has raised a row from 1 to 2 while another key has a row.
C36_Witness ==
  \E p \in QProcs :
    LET k == <<qcall[p].user_id, qcall[p].usage_date>> IN
    /\ qpc[p] = "idle"
    /\ qn[p] > 0
    /\ qret[p].allowed
    /\ qret[p].used_count = 2
    /\ usage[k].used_count = 2
    /\ \E j \in QKeys \ {k} : usage[j] # NoRow

\* -------------------------------------------------------------------- C37
\* At most one occurrence of an event id was counted as processed, only that
\* one can have gone to a handler, and no two handlers hold the same id.
OneHandled ==
  /\ \A id \in DOMAIN wlog :
       /\ wlog[id].processed <= 1
       /\ wlog[id].routed <= wlog[id].processed
       /\ wlog[id].processed = 1 <=> id \in webhook_events
       /\ wlog[id].skipped > 0 => wlog[id].processed = 1
  /\ \A p \in WProcs : \A q \in WProcs \ {p} :
       (wpc[p] = "route" /\ wpc[q] = "route")
         => EventId(wsent[widx[p]]) # EventId(wsent[widx[q]])

\* The dedup gate met with an occurrence of a registered id: the call counts
\* it in dedup_skipped and goes on to the next event.
DuplicateSkipped ==
  \A p \in WProcs :
    (wpc[p] = "loop" /\ widx[p] <= Len(wsent)
       /\ <<wstat[p], widx[p], wpc[p]>> # <<wstat'[p], widx'[p], wpc'[p]>>
       /\ EventId(wsent[widx[p]]) \in webhook_events) =>
      /\ wstat'[p].dedup_skipped = wstat[p].dedup_skipped + 1
      /\ wstat'[p].processed = wstat[p].processed
      /\ wpc'[p] = "loop"
      /\ widx'[p] = widx[p] + 1
      /\ UNCHANGED <<wactive, asks, replies>>

\* C37: whatever the interleaving of the handle_body calls and wherever the
\* occurrences of an event id are (in one batch, or in the batches of two
\* concurrent calls), at most one occurrence of the id is counted as
\* processed and routed to a handler; an occurrence met after the id was
\* registered is counted in dedup_skipped and goes to no handler.
C37_OneOccurrenceHandled == []OneHandled /\ [][DuplicateSkipped]_vars

\* Two calls have returned for a batch of two occurrences of one event: one
\* of the four occurrences was processed and routed, three were skipped.
C37_Witness ==
  /\ Len(wsent) = 2
  /\ EventId(wsent[1]) = EventId(wsent[2])
  /\ returned = 2
  /\ wlog[EventId(wsent[1])].processed = 1
  /\ wlog[EventId(wsent[1])].routed = 1
  /\ wlog[EventId(wsent[1])].skipped = 3
  /\ \A p \in WProcs : wres[p].dedup_skipped >= 1

\* -------------------------------------------------------------------- C38
\* No event went to a handler more than once, an event whose handler raised
\* is in the ledger, and an event is in the ledger while its handler runs.
HandledOnce ==
  /\ \A id \in DOMAIN wlog :
       /\ wlog[id].routed <= 1
       /\ wlog[id].raised <= wlog[id].routed
       /\ wlog[id].raised > 0 => id \in webhook_events
  /\ \A p \in WProcs :
       wpc[p] = "route" => EventId(wsent[widx[p]]) \in webhook_events

\* The dedup gate met with an event whose handler raised before: the event
\* is skipped.
FailedSkipped ==
  \A p \in WProcs :
    (wpc[p] = "loop" /\ widx[p] <= Len(wsent)
       /\ <<wstat[p], widx[p], wpc[p]>> # <<wstat'[p], widx'[p], wpc'[p]>>
       /\ wlog[EventId(wsent[widx[p]])].raised > 0) =>
      /\ wstat'[p].dedup_skipped = wstat[p].dedup_skipped + 1
      /\ wpc'[p] = "loop"
      /\ UNCHANGED <<wactive, asks, replies>>

\* C38: an event is registered in the ledger before its handler runs, and
\* the registration stays when the handler raises: a redelivery of an event
\* whose handler failed is skipped as a duplicate; every event is handled at
\* most once and a failed one is not retried.
C38_FailedEventNotRetried == []HandledOnce /\ [][FailedSkipped]_vars

\* The handler of an event raised, the event was delivered again and was
\* skipped; it went to a handler once.
C38_Witness ==
  \E id \in DOMAIN wlog :
    /\ wlog[id].raised = 1
    /\ wlog[id].skipped_failed >= 1
    /\ wlog[id].routed = 1
    /\ \E p \in WProcs : wres[p].raised

\* -------------------------------------------------------------------- C39
\* The text messages of the batch that lead to ask.
Questions == {i \in 1..Len(wsent) : HandlerOf(wsent[i]) = "message" /\ MessageAsks(wsent[i])}

\* C39: a text-message event id leads to at most one ask call, and so to at
\* most one unit of the sender's daily quota, and to at most one reply,
\* however often and however concurrently the event is delivered.
C39_OneAskPerMessage ==
  /\ \A i \in Questions :
       /\ wlog[EventId(wsent[i])].asks <= 1
       /\ wlog[EventId(wsent[i])].replies <= wlog[EventId(wsent[i])].asks
  /\ asks <= Cardinality({EventId(wsent[i]) : i \in Questions})
  /\ replies <= Cardinality(DOMAIN wlog)

\* A question delivered twice in each of two batches was asked once and
\* answered once.
C39_Witness ==
  /\ Len(wsent) = 2
  /\ Questions = {1, 2}
  /\ EventId(wsent[1]) = EventId(wsent[2])
  /\ returned = 2
  /\ wlog[EventId(wsent[1])].asks = 1
  /\ wlog[EventId(wsent[1])].replies = 1
  /\ wlog[EventId(wsent[1])].skipped = 3
  /\ asks = 1

====
